---- MODULE Spec2Model ----
(***************************************************************************)
(* Model of the signal-to-position state machines of strategys.py and of   *)
(* the equity simulator of backtest_engine.py.                             *)
(*                                                                         *)
(* Prices are integers.  A price multiplied by a percentage is kept in     *)
(* hundredths (stop_loss_price = close * (100 - 8) stands for              *)
(* close * (1 - 0.08)), so every comparison of the code is exact here.     *)
(* A cell of the 'signal' column is kept in half units (2 for 1, -2 for    *)
(* -1, -1 for -0.5) because VolatilityControlStrategy writes -0.5.         *)
(* One step of Spec is one iteration of the per-bar loop of the running    *)
(* strategy's generate_signals: it reads the bar's row (prices and the     *)
(* indicator columns computed by calculate_indicators), updates the loop's *)
(* local variables and writes the row's output cells.                      *)
(***************************************************************************)
EXTENDS Integers, Sequences, FiniteSets, TLC

VARIABLES
    self,      \* the strategy object: its class and the options the loops read
    i,         \* index of the row the loop of generate_signals has just processed
    date,      \* calendar day of row i (df.index[i], in days)
    bar,       \* input cells of row i: prices and indicator columns
    st,        \* local variables of the loop of generate_signals
    row,       \* output cells of row i
    bt_i,      \* index of the row the loop of run_backtest has just processed
    sig,       \* cells of row bt_i of the signals frame read by run_backtest
    cash,      \* run_backtest's local cash, in 1/10000
    position,  \* run_backtest's local position (shares held)
    eq,        \* cash, position_value and capital cells of row bt_i, in 1/10000
    buy_dates, \* analyze_trades: index of the rows 0..i with signal == 1
    sell_dates,\* analyze_trades: index of the rows 0..i with signal == -1
    trades,    \* analyze_trades: the trades list
    call,      \* a call of load_single_stock or calculate_performance_metrics
    ret,       \* what the call returned
    batch,     \* run_batch_backtest: the files of data_folder, and whether
               \* strategy_name names a class of the strategy module
    pc,        \* run_batch_backtest: the part it is in
    file_i,    \* load_all_stocks: files loaded so far
    stock_data_dict, \* the stocks load_all_stocks has loaded, in order
    stock_i,   \* run_batch_backtest: stocks processed so far
    all_results,     \* run_batch_backtest: the performance dicts
    failed_stocks,   \* run_batch_backtest: the codes of the stocks without one
    results_df,      \* run_batch_backtest: what it returns
    summary_stats,   \* what generate_summary_statistics returned, or None
    self_signals,    \* the signals attribute of a MovingAverageStrategy:
                     \* None, or the frame of its last generate_signals, of
                     \* which the position cell of the last row is kept
    data             \* the whole frame passed to generate_signals or to
                     \* run_backtest, where the model keeps it (row t of the
                     \* frame is data[t + 1])

svars == <<self, i, date, bar, st, row>>
bvars == <<bt_i, sig, cash, position, eq>>
tvars == <<buy_dates, sell_dates, trades>>
\* the variables that neither generate_signals nor run_backtest touches
cvars == <<call, ret>>
bavars == <<batch, pc, file_i, stock_data_dict, stock_i, all_results, failed_stocks,
            results_df, summary_stats>>
ovars == <<cvars, bavars, self_signals, data>>
vars == <<svars, bvars, tvars, ovars>>

----------------------------------------------------------------------------
(* Bounds of the model *)

\* number of loop iterations of generate_signals / run_backtest (rows 1..MaxBars)
MaxBars == 7

\* the price grid of close, high, low and of the price-valued indicators
Prices == {10, 12, 13}

\* the values of the moving-average columns (MA20, BB_middle)
Means == {8, 10, 12}

Max(a, b) == IF a >= b THEN a ELSE b
Min(a, b) == IF a <= b THEN a ELSE b
Abs(a) == IF a >= 0 THEN a ELSE -a

----------------------------------------------------------------------------
(* Values of the signal column, in half units *)

SignalBuy == 2
SignalSell == -2
SignalReduce == -1

----------------------------------------------------------------------------
(* Strategy parameters (constructor defaults), percentages in hundredths *)

\* MovingAverageStrategy, DualMovingAverageStrategy, MovingAverageBandStrategy
stop_loss_pct == 8
take_profit_pct == 20
volume_confirmation == TRUE
use_ma_slope == FALSE
use_volume_confirmation == FALSE
use_ma_cross_confirmation == FALSE

\* BoxBreakoutStrategy; hold_period is set below its default of 10 so that the
\* time exit falls inside MaxBars
box_stop_loss_pct == 5
hold_period == 3

----------------------------------------------------------------------------
(* Rows of the frame *)

\* the input cells of a row read by the loops; a strategy leaves at their
\* zero the columns it does not read.  nan marks a row whose rolling standard
\* deviation is NaN (row 0: one observation)
ZeroBar == [close |-> 0, high |-> 0, low |-> 0, ma |-> 0, hw |-> 0, diff |-> 0,
            volOK |-> FALSE, slopeOK |-> FALSE, atr |-> 0,
            box_high |-> 0, box_low |-> 0, rsi |-> 0, high_vol |-> FALSE,
            nan |-> FALSE]

\* the output cells of a row as the column initialisation leaves them
ZeroRow == [signal_raw |-> 0, signal |-> 0, position |-> 0, entry_price |-> 0,
            stop_loss |-> 0, take_profit |-> 0, hold_days |-> 0,
            sell_reason |-> "", trade_pnl |-> 0, buy_eligible |-> 1]

\* the loop's local variables before the first iteration
ZeroState == [position |-> 0, entry_price |-> 0, hold_days |-> 0,
              stop_loss_price |-> 0, take_profit_price |-> 0,
              initial_stop_price |-> 0, max_price_since_entry |-> 0,
              target_position |-> 0, last_buy_date |-> -1]

\* open, high, low, close of one bar: low <= close <= high
OHLC == {b \in [close : Prices, high : Prices, low : Prices] :
            b.low <= b.close /\ b.close <= b.high}

WithOHLC(b) == [ZeroBar EXCEPT !.close = b.close, !.high = b.high, !.low = b.low]

----------------------------------------------------------------------------
(* MovingAverageStrategy *)

\* rows with the MA20 and volume_ratio columns
MABars == {[WithOHLC(b) EXCEPT !.ma = m, !.volOK = v] :
              b \in OHLC, m \in Means, v \in BOOLEAN}

\* row 0: the rolling mean of one close is that close
MABar0 == {b \in MABars : b.ma = b.close}

\* a golden cross that needs the close of the row before strictly under its
\* mean
MA_signal_raw_strict(b, p) ==
    LET golden_cross == b.close > b.ma /\ p.close < p.ma
        dead_cross == b.close < b.ma /\ p.close >= p.ma
        raw == IF dead_cross THEN -1 ELSE IF golden_cross THEN 1 ELSE 0
        f1 == IF volume_confirmation /\ golden_cross /\ ~b.volOK THEN 0 ELSE raw
    IN IF use_ma_slope /\ golden_cross /\ ~b.slopeOK THEN 0 ELSE f1

\* signal_raw of row b, p being the row before it
MA_signal_raw(b, p) ==
    LET golden_cross == b.close > b.ma /\ p.close <= p.ma
        dead_cross == b.close < b.ma /\ p.close >= p.ma
        raw == IF dead_cross THEN -1 ELSE IF golden_cross THEN 1 ELSE 0
        volume_condition == b.volOK
        slope_condition == b.slopeOK
        f1 == IF volume_confirmation /\ golden_cross /\ ~volume_condition THEN 0 ELSE raw
    IN IF use_ma_slope /\ golden_cross /\ ~slope_condition THEN 0 ELSE f1

\* the initial stop and target of an entry at close c, in hundredths
PctStop(c) == c * (100 - stop_loss_pct)
PctTarget(c) == c * (100 + take_profit_pct)

\* a trailing stop that follows the bar's high down as well as up
TrailingStop_follows_high(stop, high) == high * (100 - stop_loss_pct)

\* the trailing stop of a held bar, in hundredths
TrailingStop(stop, high) == Max(stop, high * (100 - stop_loss_pct))

\* the entry branch of the three percentage-stop loops
PctEntry(s, b) ==
    [st |-> [s EXCEPT !.position = 1, !.entry_price = b.close, !.hold_days = 1,
                      !.stop_loss_price = PctStop(b.close),
                      !.take_profit_price = PctTarget(b.close)],
     row |-> [ZeroRow EXCEPT !.signal = SignalBuy, !.position = 1,
                             !.entry_price = b.close,
                             !.stop_loss = PctStop(b.close),
                             !.take_profit = PctTarget(b.close),
                             !.hold_days = 1]]

\* a held branch whose exit writes the exit row but forgets to reset the loop's
\* position
PctHeld_keeps_position(s, b, sell_reason) ==
    LET hold_days == s.hold_days + 1
    IN IF sell_reason # ""
       THEN [st |-> [s EXCEPT !.hold_days = hold_days],
             row |-> [ZeroRow EXCEPT !.signal = SignalSell, !.position = 0,
                                     !.hold_days = hold_days,
                                     !.sell_reason = sell_reason]]
       ELSE [st |-> [s EXCEPT !.hold_days = hold_days],
             row |-> [ZeroRow EXCEPT !.position = 1, !.hold_days = hold_days,
                                     !.stop_loss = s.stop_loss_price]]

\* the held branch of the three percentage-stop loops, given the bar's sell
\* reason ("" when no sell condition holds)
PctHeld(s, b, sell_reason) ==
    LET hold_days == s.hold_days + 1
    IN IF sell_reason # ""
       THEN [st |-> [s EXCEPT !.position = 0, !.entry_price = 0, !.hold_days = 0,
                              !.stop_loss_price = 0, !.take_profit_price = 0],
             row |-> [ZeroRow EXCEPT !.signal = SignalSell, !.position = 0,
                                     !.hold_days = hold_days,
                                     !.sell_reason = sell_reason,
                                     !.trade_pnl = b.close - s.entry_price]]
       ELSE LET stop == TrailingStop(s.stop_loss_price, b.high)
            IN [st |-> [s EXCEPT !.hold_days = hold_days, !.stop_loss_price = stop],
                row |-> [ZeroRow EXCEPT !.position = 1, !.hold_days = hold_days,
                                        !.stop_loss = stop]]

\* a bar on which the loop is flat and does not enter
Idle(s) == [st |-> s, row |-> ZeroRow]

\* the row with the bar's signal_raw cell, filled in before the loop starts
WithRaw(r, current_signal) == [r EXCEPT !.row.signal_raw = current_signal]

\* the row without the trade_pnl cell, for the loops that do not record it
WithoutPnl(r) == [r EXCEPT !.row.trade_pnl = 0]

\* a sell condition chain that tests the stop loss before the dead cross
MA_sell_reason_stop_first(s, b, current_signal) ==
    IF b.low * 100 <= s.stop_loss_price THEN "stop_loss"
    ELSE IF current_signal = -1 THEN "dead_cross"
    ELSE IF b.high * 100 >= s.take_profit_price THEN "take_profit"
    ELSE IF b.close * 100 > b.ma * 115 THEN "deviation"
    ELSE ""

MA_sell_reason(s, b, current_signal) ==
    IF current_signal = -1 THEN "dead_cross"
    ELSE IF b.low * 100 <= s.stop_loss_price THEN "stop_loss"
    ELSE IF b.high * 100 >= s.take_profit_price THEN "take_profit"
    ELSE IF b.close * 100 > b.ma * 115 THEN "deviation"
    ELSE ""

\* a loop body that enters on every raw signal 1, held or not
MA_body_reenters(s, b, current_signal) ==
    WithRaw(IF current_signal = 1 THEN PctEntry(s, b)
            ELSE IF s.position = 0 THEN Idle(s)
            ELSE PctHeld(s, b, MA_sell_reason(s, b, current_signal)),
            current_signal)

MA_body(s, b, current_signal) ==
    WithRaw(IF s.position = 0
            THEN IF current_signal = 1 THEN PctEntry(s, b) ELSE Idle(s)
            ELSE PctHeld(s, b, MA_sell_reason(s, b, current_signal)),
            current_signal)

MAStep ==
    /\ self.class = "MA" /\ i < MaxBars
    /\ \E b \in MABars :
          LET r == MA_body(st, b, MA_signal_raw(b, bar))
          IN bar' = b /\ st' = r.st /\ row' = r.row
    /\ i' = i + 1 /\ date' = date + 1
    /\ UNCHANGED <<self, bvars, ovars>>

----------------------------------------------------------------------------
(* DualMovingAverageStrategy *)

\* rows with the sign of MA_fast - MA_slow (diff) and volume_ratio > 1.2
DualBars == {[WithOHLC(b) EXCEPT !.diff = d, !.volOK = v] :
                b \in OHLC, d \in {-1, 0, 1}, v \in {TRUE}}

\* row 0: both rolling means are the close
DualBar0 == {b \in DualBars : b.diff = 0}

Dual_signal_raw(b, p) ==
    LET golden_cross == b.diff > 0 /\ p.diff <= 0
        dead_cross == b.diff < 0 /\ p.diff >= 0
        raw == IF dead_cross THEN -1 ELSE IF golden_cross THEN 1 ELSE 0
        volume_condition == b.volOK
    IN IF use_volume_confirmation /\ golden_cross /\ ~volume_condition THEN 0 ELSE raw

Dual_sell_reason(s, b, current_signal) ==
    IF current_signal = -1 THEN "dead_cross"
    ELSE IF b.low * 100 <= s.stop_loss_price THEN "stop_loss"
    ELSE IF b.high * 100 >= s.take_profit_price THEN "take_profit"
    ELSE ""

Dual_body(s, b, current_signal) ==
    WithRaw(IF s.position = 0
            THEN IF current_signal = 1 THEN PctEntry(s, b) ELSE Idle(s)
            ELSE WithoutPnl(PctHeld(s, b, Dual_sell_reason(s, b, current_signal))),
            current_signal)

DualStep ==
    /\ self.class = "Dual" /\ i < MaxBars
    /\ \E b \in DualBars :
          LET r == Dual_body(st, b, Dual_signal_raw(b, bar))
          IN bar' = b /\ st' = r.st /\ row' = r.row
    /\ i' = i + 1 /\ date' = date + 1
    /\ UNCHANGED <<self, bvars, ovars>>

----------------------------------------------------------------------------
(* MovingAverageBandStrategy *)

\* std_dev * std of a row, the half width of the band
BandHalfWidths == {0, 1, 2}

\* rows with MA (ma) and the band MA -/+ std_dev * std (hw); a standard
\* deviation of 0 means the close is the mean
BandBars == {x \in {[WithOHLC(b) EXCEPT !.ma = m, !.hw = h] :
                         b \in OHLC, m \in Means, h \in BandHalfWidths} :
                x.hw = 0 => x.close = x.ma}

\* row 0: the mean of one close is that close, its standard deviation is NaN
BandBar0 == {[b EXCEPT !.nan = TRUE] : b \in {x \in BandBars : x.ma = x.close /\ x.hw = 0}}

\* a band-width filter written on every row of a narrow band, not only on
\* the rows of break_upper
Band_signal_raw_unmasked(b, p) ==
    LET break_upper == b.close > b.ma + b.hw /\ ~p.nan /\ p.close <= p.ma + p.hw
        break_lower == b.close < b.ma - b.hw /\ ~p.nan /\ p.close >= p.ma - p.hw
        raw == IF break_lower THEN -1 ELSE IF break_upper THEN 1 ELSE 0
        f1 == IF use_ma_cross_confirmation /\ break_upper /\ ~(b.close > b.ma)
              THEN 0 ELSE raw
    IN IF ~(2 * b.hw * 100 > 5 * b.ma) THEN 0 ELSE f1

Band_signal_raw(b, p) ==
    LET break_upper == b.close > b.ma + b.hw /\ ~p.nan /\ p.close <= p.ma + p.hw
        break_lower == b.close < b.ma - b.hw /\ ~p.nan /\ p.close >= p.ma - p.hw
        raw == IF break_lower THEN -1 ELSE IF break_upper THEN 1 ELSE 0
        price_above_ma == b.close > b.ma
        f1 == IF use_ma_cross_confirmation /\ break_upper /\ ~price_above_ma THEN 0 ELSE raw
        \* band_width = (upper_band - lower_band) / MA > 0.05
        band_width_condition == 2 * b.hw * 100 > 5 * b.ma
    IN IF break_upper /\ ~band_width_condition THEN 0 ELSE f1

Band_sell_reason(s, b, current_signal) ==
    IF current_signal = -1 THEN "break_lower"
    ELSE IF b.low * 100 <= s.stop_loss_price THEN "stop_loss"
    ELSE IF b.high * 100 >= s.take_profit_price THEN "take_profit"
    \* abs(price_ma_deviation) < 2, price_ma_deviation = (close - MA) / MA * 100
    ELSE IF Abs(b.close - b.ma) * 100 < 2 * b.ma THEN "revert_to_ma"
    ELSE ""

Band_body(s, b, current_signal) ==
    WithRaw(IF s.position = 0
            THEN IF current_signal = 1 THEN PctEntry(s, b) ELSE Idle(s)
            ELSE WithoutPnl(PctHeld(s, b, Band_sell_reason(s, b, current_signal))),
            current_signal)

BandStep ==
    /\ self.class = "Band" /\ i < MaxBars
    /\ \E b \in BandBars :
          LET r == Band_body(st, b, Band_signal_raw(b, bar))
          IN bar' = b /\ st' = r.st /\ row' = r.row
    /\ i' = i + 1 /\ date' = date + 1
    /\ UNCHANGED <<self, bvars, ovars>>

----------------------------------------------------------------------------
(* BoxBreakoutStrategy *)

BoxPrices == {90, 97, 98, 99, 100}

BoxOHLC == {b \in [close : BoxPrices, high : BoxPrices, low : BoxPrices] :
               b.low <= b.close /\ b.close <= b.high}

\* rows after row p, itself row t - 1: box_high and box_low are the rolling
\* maximum of high and minimum of low over box_period rows, shifted by one
\* row; over fewer than box_period rows these are the extremes of all the
\* earlier rows
BoxBars(t, p) ==
    {[WithOHLC(b) EXCEPT
         !.box_high = IF t = 1 THEN p.high ELSE Max(p.box_high, p.high),
         !.box_low = IF t = 1 THEN p.low ELSE Min(p.box_low, p.low)] : b \in BoxOHLC}

BoxBar0 == {WithOHLC(b) : b \in BoxOHLC}

Box_entry(s, b) ==
    LET stop == b.close * (100 - box_stop_loss_pct)
    IN [st |-> [s EXCEPT !.position = 1, !.entry_price = b.close, !.hold_days = 1,
                         !.stop_loss_price = stop],
        row |-> [ZeroRow EXCEPT !.signal = SignalBuy, !.position = 1,
                                !.hold_days = 1, !.entry_price = b.close,
                                !.stop_loss = stop]]

Box_sell_reason(s, b, current_hold_days) ==
    IF s.stop_loss_price # 0 /\ b.close * 100 < s.stop_loss_price THEN "stop_loss"
    ELSE IF current_hold_days >= hold_period THEN "hold_period"
    ELSE IF b.close < b.box_low THEN "box_low"
    ELSE ""

\* a stop that takes the trailing candidate of the bar whatever the stop was
Box_trailing_last_high(stop, high) == high * (100 - box_stop_loss_pct)

Box_trailing(stop, high) ==
    LET trailing_stop == high * (100 - box_stop_loss_pct)
    IN IF stop # 0 THEN Max(stop, trailing_stop) ELSE trailing_stop

Box_body(s, b) ==
    IF s.position = 0
    THEN IF b.close > b.box_high /\ b.box_high - b.box_low > 0
         THEN Box_entry(s, b) ELSE Idle(s)
    ELSE LET hold_days == s.hold_days + 1
             sell_reason == Box_sell_reason(s, b, hold_days)
         IN IF sell_reason # ""
            THEN [st |-> [s EXCEPT !.position = 0, !.entry_price = 0,
                                   !.hold_days = 0, !.stop_loss_price = 0],
                  row |-> [ZeroRow EXCEPT !.signal = SignalSell, !.position = 0,
                                          !.hold_days = hold_days,
                                          !.sell_reason = sell_reason,
                                          !.stop_loss = s.stop_loss_price]]
            ELSE LET stop == Box_trailing(s.stop_loss_price, b.high)
                 IN [st |-> [s EXCEPT !.hold_days = hold_days,
                                      !.stop_loss_price = stop],
                     row |-> [ZeroRow EXCEPT !.position = 1, !.hold_days = hold_days,
                                             !.stop_loss = stop]]

BoxStep ==
    /\ self.class = "Box" /\ i < MaxBars
    /\ \E b \in BoxBars(i + 1, bar) :
          LET r == Box_body(st, b)
          IN bar' = b /\ st' = r.st /\ row' = r.row
    /\ i' = i + 1 /\ date' = date + 1
    /\ UNCHANGED <<self, bvars, ovars>>

----------------------------------------------------------------------------
(* MovingAverageWithATRStrategy *)

atr_multiplier == 2
atr_use_volume_confirmation == TRUE

\* values of the ATR column: the mean true range of the window, which holds
\* the price move that makes the golden cross
ATRs == {1, 2}

\* rows with the sign of MA_short - MA_long (diff), volume_ratio > 1.2,
\* ma_long_slope > 0 and ATR; ma_long_slope is a change over 5 rows, NaN on
\* rows 0..4
ATRBars(t) == {[WithOHLC(b) EXCEPT !.diff = d, !.volOK = v, !.slopeOK = sl, !.atr = a] :
                  b \in OHLC, d \in {-1, 0, 1}, v \in BOOLEAN,
                  sl \in IF t >= 5 THEN BOOLEAN ELSE {FALSE}, a \in ATRs}

\* row 0: both rolling means are the close (its ATR is NaN and is not read)
ATRBar0 == {b \in ATRBars(0) : b.diff = 0 /\ b.atr = 1 /\ ~b.volOK}

ATR_signal_raw(b, p) ==
    LET golden_cross == b.diff > 0 /\ p.diff <= 0
        dead_cross == b.diff < 0 /\ p.diff >= 0
        raw == IF dead_cross THEN -1 ELSE IF golden_cross THEN 1 ELSE 0
        volume_condition == b.volOK
        f1 == IF atr_use_volume_confirmation /\ golden_cross /\ ~volume_condition
              THEN 0 ELSE raw
        trend_strength_condition == b.slopeOK
    IN IF golden_cross /\ ~trend_strength_condition THEN 0 ELSE f1

\* atr_stop column: ATR * atr_multiplier
ATR_stop(b) == b.atr * atr_multiplier

ATR_entry(s, b) ==
    LET initial_stop_price == (b.close - ATR_stop(b)) * 100
    IN [st |-> [s EXCEPT !.position = 1, !.entry_price = b.close, !.hold_days = 1,
                         !.initial_stop_price = initial_stop_price,
                         !.stop_loss_price = initial_stop_price,
                         !.max_price_since_entry = b.close],
        row |-> [ZeroRow EXCEPT !.signal = SignalBuy, !.position = 1,
                                !.entry_price = b.close,
                                !.stop_loss = initial_stop_price,
                                !.hold_days = 1]]

\* current_stop_price of a held bar, in hundredths
ATR_current_stop(trailing, s, max_price, b) ==
    IF trailing
    THEN Max(s.stop_loss_price, (max_price - ATR_stop(b)) * 100)
    ELSE s.initial_stop_price

ATR_sell_reason(entry_price, current_stop_price, hold_days, b, current_signal) ==
    LET r2 == IF current_signal = -1 THEN "dead_cross"
              ELSE IF b.low * 100 <= current_stop_price THEN "atr_stop"
              ELSE ""
        \* (close - entry_price) / entry_price <= -0.15
        r3 == IF (b.close - entry_price) * 100 <= -15 * entry_price
              THEN "max_loss" ELSE r2
    IN IF hold_days >= 60 THEN "max_hold" ELSE r3

\* a held branch that books a stopped position at its stop price
ATR_held_exit_at_stop(trailing, s, b, current_signal) ==
    LET hold_days == s.hold_days + 1
        max_price == Max(s.max_price_since_entry, b.high)
        stop == ATR_current_stop(trailing, s, max_price, b)
        sell_reason == ATR_sell_reason(s.entry_price, stop, hold_days, b, current_signal)
        exit_price == IF sell_reason = "atr_stop" THEN stop \div 100 ELSE b.close
    IN IF sell_reason # ""
       THEN [st |-> [s EXCEPT !.position = 0, !.entry_price = 0, !.hold_days = 0,
                              !.initial_stop_price = 0, !.stop_loss_price = 0,
                              !.max_price_since_entry = 0],
             row |-> [ZeroRow EXCEPT !.signal = SignalSell, !.position = 0,
                                     !.hold_days = hold_days, !.stop_loss = stop,
                                     !.sell_reason = sell_reason,
                                     !.trade_pnl = exit_price - s.entry_price]]
       ELSE [st |-> [s EXCEPT !.hold_days = hold_days, !.stop_loss_price = stop,
                              !.max_price_since_entry = max_price],
             row |-> [ZeroRow EXCEPT !.position = 1, !.hold_days = hold_days,
                                     !.stop_loss = stop]]

ATR_held(trailing, s, b, current_signal) ==
    LET hold_days == s.hold_days + 1
        max_price == Max(s.max_price_since_entry, b.high)
        stop == ATR_current_stop(trailing, s, max_price, b)
        sell_reason == ATR_sell_reason(s.entry_price, stop, hold_days, b, current_signal)
    IN IF sell_reason # ""
       THEN [st |-> [s EXCEPT !.position = 0, !.entry_price = 0, !.hold_days = 0,
                              !.initial_stop_price = 0, !.stop_loss_price = 0,
                              !.max_price_since_entry = 0],
             row |-> [ZeroRow EXCEPT !.signal = SignalSell, !.position = 0,
                                     !.hold_days = hold_days, !.stop_loss = stop,
                                     !.sell_reason = sell_reason,
                                     !.trade_pnl = b.close - s.entry_price]]
       ELSE [st |-> [s EXCEPT !.hold_days = hold_days, !.stop_loss_price = stop,
                              !.max_price_since_entry = max_price],
             row |-> [ZeroRow EXCEPT !.position = 1, !.hold_days = hold_days,
                                     !.stop_loss = stop]]

ATR_body(trailing, s, b, current_signal) ==
    WithRaw(IF s.position = 0
            THEN IF current_signal = 1 THEN ATR_entry(s, b) ELSE Idle(s)
            ELSE ATR_held(trailing, s, b, current_signal),
            current_signal)

ATRStep ==
    /\ self.class = "ATR" /\ i < MaxBars
    /\ \E b \in ATRBars(i + 1) :
          LET r == ATR_body(self.trailing_stop, st, b, ATR_signal_raw(b, bar))
          IN bar' = b /\ st' = r.st /\ row' = r.row
    /\ i' = i + 1 /\ date' = date + 1
    /\ UNCHANGED <<self, bvars, ovars>>

----------------------------------------------------------------------------
(* The T+1 rule of MeanReversionStrategy and VolatilityControlStrategy *)

\* days between two consecutive rows of a daily series
DayGaps == {1}

\* the check with the day after the buy blocked as well
can_sell_after_two_days(use_t1_rule, s, current_date) ==
    ~(use_t1_rule /\ s.last_buy_date # -1 /\ current_date - s.last_buy_date < 2)

can_sell(use_t1_rule, s, current_date) ==
    ~(use_t1_rule /\ s.last_buy_date # -1 /\ current_date - s.last_buy_date < 1)

----------------------------------------------------------------------------
(* MeanReversionStrategy *)

rsi_overbought == 75
rsi_oversold == 25
rsi_stop_loss == 20

\* values of the RSI column
RSIs == {10, 22, 50, 80}

\* rows with BB_middle (ma), bb_std * BB_std (hw) and RSI; the loop reads no
\* high or low; a standard deviation of 0 means the close is the mean
MRBars == {b \in {[ZeroBar EXCEPT !.close = c, !.ma = m, !.hw = h, !.rsi = r] :
                       c \in Prices, m \in Means, h \in BandHalfWidths, r \in RSIs} :
              b.hw = 0 => b.close = b.ma}

MRBar0 == {[b EXCEPT !.nan = TRUE] :
              b \in {x \in MRBars : x.ma = x.close /\ x.hw = 0 /\ x.rsi = 50}}

BB_lower(b) == b.ma - b.hw
BB_upper(b) == b.ma + b.hw
below_lower(b) == b.close < BB_lower(b)
above_upper(b) == b.close > BB_upper(b)

\* BB_position > 0.5, BB_position = (close - BB_lower) / (BB_upper - BB_lower);
\* a division by zero gives inf, -inf or NaN
BB_position_above_half(b) ==
    IF BB_upper(b) - BB_lower(b) > 0
    THEN (b.close - BB_lower(b)) * 2 > BB_upper(b) - BB_lower(b)
    ELSE b.close - BB_lower(b) > 0

MR_signal_raw(b) ==
    LET buy_condition == below_lower(b) /\ b.rsi < rsi_oversold
        sell_condition == above_upper(b) /\ b.rsi > rsi_overbought
    IN IF sell_condition THEN -1 ELSE IF buy_condition THEN 1 ELSE 0

MR_stop_loss_raw(b) == below_lower(b) \/ b.rsi < rsi_stop_loss

MR_entry(s, b, current_date) ==
    [st |-> [s EXCEPT !.position = 1, !.entry_price = b.close, !.hold_days = 1,
                      !.stop_loss_price = BB_lower(b) * 100,
                      !.last_buy_date = current_date],
     row |-> [ZeroRow EXCEPT !.signal = SignalBuy, !.position = 1,
                             !.entry_price = b.close,
                             !.stop_loss = BB_lower(b) * 100,
                             !.hold_days = 1]]

\* sell conditions without the maximum holding time
MR_sell_reason_no_max_hold(hold_days, b, current_signal, sellable) ==
    IF current_signal = -1 /\ sellable THEN "upper_break"
    ELSE IF MR_stop_loss_raw(b) /\ sellable
         THEN IF below_lower(b) THEN "lower_band_stop" ELSE "rsi_stop"
    ELSE IF BB_position_above_half(b) /\ sellable THEN "mid_band"
    ELSE ""

MR_sell_reason(hold_days, b, current_signal, sellable) ==
    LET r3 == IF current_signal = -1 /\ sellable THEN "upper_break"
              ELSE IF MR_stop_loss_raw(b) /\ sellable
                   THEN IF below_lower(b) THEN "lower_band_stop" ELSE "rsi_stop"
              ELSE IF BB_position_above_half(b) /\ sellable THEN "mid_band"
              ELSE ""
    IN IF hold_days >= 10 /\ sellable THEN "max_hold" ELSE r3

\* a held branch whose exit row carries no signal
MR_held_silent_exit(s, b, current_signal, sellable) ==
    LET hold_days == s.hold_days + 1
        sell_reason == MR_sell_reason(hold_days, b, current_signal, sellable)
    IN IF sell_reason # ""
       THEN [st |-> [s EXCEPT !.position = 0, !.entry_price = 0, !.hold_days = 0,
                              !.stop_loss_price = 0],
             row |-> [ZeroRow EXCEPT !.position = 0, !.hold_days = hold_days,
                                     !.sell_reason = sell_reason,
                                     !.trade_pnl = b.close - s.entry_price]]
       ELSE [st |-> [s EXCEPT !.hold_days = hold_days],
             row |-> [ZeroRow EXCEPT !.position = 1, !.hold_days = hold_days,
                                     !.stop_loss = BB_lower(b) * 100]]

MR_held(s, b, current_signal, sellable) ==
    LET hold_days == s.hold_days + 1
        sell_reason == MR_sell_reason(hold_days, b, current_signal, sellable)
    IN IF sell_reason # ""
       THEN [st |-> [s EXCEPT !.position = 0, !.entry_price = 0, !.hold_days = 0,
                              !.stop_loss_price = 0],
             row |-> [ZeroRow EXCEPT !.signal = SignalSell, !.position = 0,
                                     !.hold_days = hold_days,
                                     !.sell_reason = sell_reason,
                                     !.trade_pnl = b.close - s.entry_price]]
       ELSE [st |-> [s EXCEPT !.hold_days = hold_days],
             row |-> [ZeroRow EXCEPT !.position = 1, !.hold_days = hold_days,
                                     !.stop_loss = BB_lower(b) * 100]]

MR_body(use_t1_rule, s, b, current_date) ==
    LET current_signal == MR_signal_raw(b)
        sellable == can_sell(use_t1_rule, s, current_date)
        r == WithRaw(IF s.position = 0
                     THEN IF current_signal = 1 THEN MR_entry(s, b, current_date)
                          ELSE Idle(s)
                     ELSE MR_held(s, b, current_signal, sellable),
                     current_signal)
    IN [r EXCEPT !.row.buy_eligible = IF sellable THEN 1 ELSE 0]

MRStep ==
    /\ self.class = "MR" /\ i < MaxBars
    /\ \E b \in MRBars, g \in DayGaps :
          LET r == MR_body(self.use_t1_rule, st, b, date + g)
          IN bar' = b /\ st' = r.st /\ row' = r.row /\ date' = date + g
    /\ i' = i + 1
    /\ UNCHANGED <<self, bvars, ovars>>

----------------------------------------------------------------------------
(* VolatilityControlStrategy *)

high_vol_position == 1000
low_vol_position == 2000

\* values of the ATR column
VCATRs == {0, 1, 2}

\* rows with the sign of MA_short - MA_long (diff), high_volatility and ATR;
\* the loop reads no high or low.  high_volatility is ATR > ATR_mean + ATR_std
\* over the ATR values of rows 1..t, which takes three of them to be true
VCBars(t) == {[ZeroBar EXCEPT !.close = c, !.diff = d, !.high_vol = hv, !.atr = a] :
                 c \in Prices, d \in {-1, 0, 1},
                 hv \in IF t >= 3 THEN BOOLEAN ELSE {FALSE}, a \in VCATRs}

VCBar0 == {b \in VCBars(0) : b.diff = 0 /\ b.atr = 0}

VC_signal_raw(b, p) ==
    LET golden_cross == b.diff > 0 /\ p.diff <= 0
        dead_cross == b.diff < 0 /\ p.diff >= 0
    IN IF dead_cross THEN -1 ELSE IF golden_cross THEN 1 ELSE 0

VC_target_position(b) == IF b.high_vol THEN high_vol_position ELSE low_vol_position

VC_entry(s, b, current_date) ==
    [st |-> [s EXCEPT !.position = VC_target_position(b),
                      !.target_position = VC_target_position(b),
                      !.entry_price = b.close, !.hold_days = 1,
                      !.last_buy_date = current_date],
     row |-> [ZeroRow EXCEPT !.signal = SignalBuy,
                             !.position = VC_target_position(b),
                             !.entry_price = b.close, !.hold_days = 1]]

\* curr_atr / prev_atr > 1.5 on a row t > 1 (ATR of row 0 is NaN)
VC_atr_increase(t, b, p) == t > 1 /\ p.atr > 0 /\ b.atr * 10 > 15 * p.atr

VC_sell_reason(t, s, hold_days, b, p, current_signal, sellable) ==
    LET r1 == IF current_signal = -1 /\ sellable THEN "dead_cross" ELSE ""
        r2 == IF VC_atr_increase(t, b, p) /\ sellable THEN "atr_increase" ELSE r1
        \* (close - entry_price) / entry_price <= -0.10
        r3 == IF (b.close - s.entry_price) * 100 <= -10 * s.entry_price /\ sellable
              THEN "max_loss" ELSE r2
    IN IF hold_days >= 30 /\ sellable THEN "max_hold" ELSE r3

\* the position adjustment of a held bar without a sell
VC_adjust(s, hold_days, b, sellable) ==
    LET target == VC_target_position(b)
        need_position_adjustment == target # s.target_position
        keep == [st |-> [s EXCEPT !.hold_days = hold_days],
                 row |-> [ZeroRow EXCEPT !.position = s.position,
                                         !.hold_days = hold_days]]
    IN IF need_position_adjustment /\ sellable
       THEN IF target > s.position
            THEN [st |-> [s EXCEPT !.hold_days = hold_days, !.position = target,
                                   !.target_position = target],
                  row |-> [ZeroRow EXCEPT !.signal = SignalBuy, !.position = target,
                                          !.hold_days = hold_days]]
            ELSE IF target < s.position
            THEN [st |-> [s EXCEPT !.hold_days = hold_days, !.position = target,
                                   !.target_position = target],
                  row |-> [ZeroRow EXCEPT !.signal = SignalReduce, !.position = target,
                                          !.hold_days = hold_days]]
            ELSE keep
       ELSE keep

VC_held(t, s, b, p, current_signal, sellable) ==
    LET hold_days == s.hold_days + 1
        sell_reason == VC_sell_reason(t, s, hold_days, b, p, current_signal, sellable)
    IN IF sell_reason # ""
       THEN [st |-> [s EXCEPT !.position = 0, !.target_position = 0,
                              !.entry_price = 0, !.hold_days = 0],
             row |-> [ZeroRow EXCEPT !.signal = SignalSell, !.position = 0,
                                     !.hold_days = hold_days,
                                     !.sell_reason = sell_reason,
                                     !.trade_pnl = (b.close - s.entry_price) * s.position]]
       ELSE VC_adjust(s, hold_days, b, sellable)

VC_body(use_t1_rule, t, s, b, p, current_date) ==
    LET current_signal == VC_signal_raw(b, p)
        sellable == can_sell(use_t1_rule, s, current_date)
        r == WithRaw(IF s.position = 0
                     THEN IF current_signal = 1 THEN VC_entry(s, b, current_date)
                          ELSE Idle(s)
                     ELSE VC_held(t, s, b, p, current_signal, sellable),
                     current_signal)
    IN [r EXCEPT !.row.buy_eligible = IF sellable THEN 1 ELSE 0]

VCStep ==
    /\ self.class = "VC" /\ i < MaxBars
    /\ \E b \in VCBars(i + 1), g \in DayGaps :
          LET r == VC_body(self.use_t1_rule, i + 1, st, b, bar, date + g)
          IN bar' = b /\ st' = r.st /\ row' = r.row /\ date' = date + g
    /\ i' = i + 1
    /\ UNCHANGED <<self, bvars, ovars>>

----------------------------------------------------------------------------
(* EfficientBacktestEngine.run_backtest *)

\* initial_capital is set below its default of 100000 so that a buy that
\* rounds to zero shares happens on the price grid; commission_rate is in 1/10000
initial_capital == 1000
commission_rate == 3

\* the close column of the signals frame
BTPrices == {4, 12}

\* rows of the signals frame that can follow a row whose position cell is pp,
\* as the loops of generate_signals write them: an entry or nothing after a
\* flat row, an exit or nothing after a held row, and for
\* VolatilityControlStrategy an added or a reduced position
SignalRows(class, pp) ==
    LET cells ==
          IF pp = 0
          THEN {<<0, 0>>} \cup
               (IF class = "VC"
                THEN {<<SignalBuy, high_vol_position>>, <<SignalBuy, low_vol_position>>}
                ELSE {<<SignalBuy, 1>>})
          ELSE {<<0, pp>>, <<SignalSell, 0>>} \cup
               (IF pp = high_vol_position THEN {<<SignalBuy, low_vol_position>>} ELSE {}) \cup
               (IF pp = low_vol_position THEN {<<SignalReduce, high_vol_position>>} ELSE {})
    IN {[signal |-> c[1], position |-> c[2], close |-> p] : c \in cells, p \in BTPrices}

\* row 0 of a signals frame: no loop of generate_signals writes it
SignalRow0 == {[signal |-> 0, position |-> 0, close |-> p] : p \in BTPrices}

\* the cells of a row after the column initialisation; prev_position is the
\* position cell of the row before (0 for row 0)
BT_init_cells(prev_position, price) ==
    [cash |-> initial_capital * 10000,
     position_value |-> prev_position * price * 10000,
     capital |-> initial_capital * 10000]

\* a capital cell that leaves the position value out
BT_capital_cash_only(cells) == cells.cash

\* the capital cell of a row from its cash and position_value cells
BT_capital(cells) == cells.cash + cells.position_value

\* a share count that is not rounded down to lots of 100
BT_max_shares_unit_lot(c, price) == c \div (price * 10000)

\* the shares cash c (in 1/10000) buys at price, in lots of 100
BT_max_shares(c, price) == (c \div (price * 100 * 10000)) * 100

\* a commission that is never charged
BT_commission_free(trade_value) == 0

\* the commission on a trade, in 1/10000
BT_commission(trade_value) == trade_value * commission_rate

\* one iteration of the loop: local cash c and position pos, row r
\* a loop iteration whose buy branch does not ask for a flat position
BT_body_buys_while_held(c, pos, prev_position, r) ==
    LET price == r.close
        cells == BT_init_cells(prev_position, price)
        max_shares == BT_max_shares(c, price)
        out ==
          IF r.signal = SignalBuy
          THEN IF max_shares > 0
               THEN LET trade_value == max_shares * price
                        c2 == c - trade_value * 10000 - BT_commission(trade_value)
                    IN [cash |-> c2, position |-> max_shares,
                        cells |-> [cells EXCEPT !.position_value = trade_value * 10000,
                                                !.cash = c2]]
               ELSE [cash |-> c, position |-> pos, cells |-> cells]
          ELSE IF r.signal = SignalSell /\ pos > 0
          THEN LET trade_value == pos * price
                   c2 == c + trade_value * 10000 - BT_commission(trade_value)
               IN [cash |-> c2, position |-> 0,
                   cells |-> [cells EXCEPT !.position_value = 0, !.cash = c2]]
          ELSE [cash |-> c, position |-> pos,
                cells |-> [cells EXCEPT
                             !.position_value = IF pos > 0 THEN pos * price * 10000 ELSE @,
                             !.cash = c]]
    IN [out EXCEPT !.cells.capital = BT_capital(out.cells)]

BT_body(c, pos, prev_position, r) ==
    LET price == r.close
        cells == BT_init_cells(prev_position, price)
        max_shares == BT_max_shares(c, price)
        out ==
          IF r.signal = SignalBuy /\ pos = 0
          THEN IF max_shares > 0
               THEN LET trade_value == max_shares * price
                        commission == BT_commission(trade_value)
                        c2 == c - trade_value * 10000 - commission
                    IN [cash |-> c2, position |-> max_shares,
                        cells |-> [cells EXCEPT !.position_value = trade_value * 10000,
                                                !.cash = c2]]
               ELSE [cash |-> c, position |-> pos, cells |-> cells]
          ELSE IF r.signal = SignalSell /\ pos > 0
          THEN LET trade_value == pos * price
                   commission == BT_commission(trade_value)
                   c2 == c + trade_value * 10000 - commission
               IN [cash |-> c2, position |-> 0,
                   cells |-> [cells EXCEPT !.position_value = 0, !.cash = c2]]
          ELSE [cash |-> c, position |-> pos,
                cells |-> [cells EXCEPT
                             !.position_value = IF pos > 0 THEN pos * price * 10000 ELSE @,
                             !.cash = c]]
    IN [out EXCEPT !.cells.capital = BT_capital(out.cells)]

BacktestStep ==
    /\ bt_i < MaxBars
    /\ \E r \in SignalRows(self.class, sig.position) :
          LET o == BT_body(cash, position, sig.position, r)
          IN sig' = r /\ cash' = o.cash /\ position' = o.position /\ eq' = o.cells
    /\ bt_i' = bt_i + 1
    /\ UNCHANGED <<svars, tvars, ovars>>

----------------------------------------------------------------------------
(* The strategy objects and the rows 0 of their frames *)

\* the classes and, of their options, those the model varies: trailing_stop
\* of MovingAverageWithATRStrategy, use_t1_rule of MeanReversionStrategy and
\* VolatilityControlStrategy (both default to True)
Selves ==
    {[class |-> c, trailing_stop |-> TRUE, use_t1_rule |-> TRUE] :
        c \in {"MA", "Dual", "Band", "Box"}}
    \cup {[class |-> "ATR", trailing_stop |-> ts, use_t1_rule |-> TRUE] : ts \in BOOLEAN}
    \cup {[class |-> c, trailing_stop |-> TRUE, use_t1_rule |-> t1] :
            c \in {"MR", "VC"}, t1 \in BOOLEAN}

Bar0(c) ==
    IF c = "MA" THEN MABar0
    ELSE IF c = "Dual" THEN DualBar0
    ELSE IF c = "Band" THEN BandBar0
    ELSE IF c = "Box" THEN BoxBar0
    ELSE IF c = "ATR" THEN ATRBar0
    ELSE IF c = "MR" THEN MRBar0
    ELSE VCBar0

\* run_backtest not started
BTIdle ==
    /\ bt_i = 0 /\ sig = [signal |-> 0, position |-> 0, close |-> 0]
    /\ cash = 0 /\ position = 0
    /\ eq = [cash |-> 0, position_value |-> 0, capital |-> 0]

\* analyze_trades not called; the frame has no row with a signal yet
TradesIdle == buy_dates = <<>> /\ sell_dates = <<>> /\ trades = <<>>

\* no call of the loader or of the metrics
CallsIdle == call = [fn |-> "none"] /\ ret = [kind |-> "none"]

\* run_batch_backtest not called
BatchIdle ==
    /\ batch = [files |-> <<>>, strategy_exists |-> TRUE]
    /\ pc = "idle" /\ file_i = 0 /\ stock_data_dict = <<>> /\ stock_i = 0
    /\ all_results = <<>> /\ failed_stocks = <<>> /\ results_df = [kind |-> "none"]
    /\ summary_stats = [kind |-> "None"]

Init ==
    /\ self \in Selves
    /\ i = 0
    /\ date = 0
    /\ bar \in Bar0(self.class)
    /\ st = ZeroState
    /\ row = ZeroRow
    /\ self_signals = [kind |-> "None"] /\ data = <<>>
    /\ BTIdle
    /\ TradesIdle
    /\ CallsIdle
    /\ BatchIdle

\* Spec keeps the last row of the frame only
RowOnly == UNCHANGED tvars

Next ==
    \/ MAStep /\ RowOnly
    \/ DualStep /\ RowOnly
    \/ BandStep /\ RowOnly
    \/ BoxStep /\ RowOnly
    \/ ATRStep /\ RowOnly
    \/ MRStep /\ RowOnly
    \/ VCStep /\ RowOnly

Spec == Init /\ [][Next]_vars

\* run_backtest over the signals frame of a finished generate_signals: of the
\* strategy objects it takes the class only, and the six classes that hold one
\* unit write the same kind of frame
InitBT ==
    /\ self \in {x \in Selves : x.class \in {"MA", "VC"} /\ x.use_t1_rule}
    /\ i = 0 /\ date = 0 /\ bar = ZeroBar /\ st = ZeroState /\ row = ZeroRow
    /\ self_signals = [kind |-> "None"] /\ data = <<>>
    /\ bt_i = 0
    /\ sig \in SignalRow0
    /\ cash = initial_capital * 10000
    /\ position = 0
    /\ eq = BT_init_cells(0, sig.close)
    /\ TradesIdle
    /\ CallsIdle
    /\ BatchIdle

NextBT == BacktestStep

SpecBT == InitBT /\ [][NextBT]_vars

----------------------------------------------------------------------------
(* analyze_trades of MovingAverageWithATRStrategy, MeanReversionStrategy and *)
(* VolatilityControlStrategy                                                *)

\* a trades entry with the two dates in each other's place
trade_info_swapped(entry_date, exit_date) ==
    [entry_date |-> exit_date, exit_date |-> entry_date]

\* one entry of the trades list: the dates only
trade_info(entry_date, exit_date) ==
    [entry_date |-> entry_date, exit_date |-> exit_date]

\* the pairing loop, from buy_idx and sell_idx on (1-based here)
RECURSIVE PairSignals(_, _, _, _)
PairSignals(bd, sd, buy_idx, sell_idx) ==
    IF buy_idx > Len(bd) \/ sell_idx > Len(sd) THEN <<>>
    ELSE IF sd[sell_idx] <= bd[buy_idx] THEN PairSignals(bd, sd, buy_idx, sell_idx + 1)
    ELSE <<trade_info(bd[buy_idx], sd[sell_idx])>>
           \o PairSignals(bd, sd, buy_idx + 1, sell_idx + 1)

analyze_trades(bd, sd) ==
    IF Len(bd) > 0 /\ Len(sd) > 0 THEN PairSignals(bd, sd, 1, 1) ELSE <<>>

\* the signal column of the frame, kept as the dates of its 1 and -1 cells;
\* a new row makes a new frame, whose trades are not computed yet
KeepSignals ==
    /\ buy_dates' = IF row'.signal = SignalBuy THEN Append(buy_dates, date')
                    ELSE buy_dates
    /\ sell_dates' = IF row'.signal = SignalSell THEN Append(sell_dates, date')
                     ELSE sell_dates
    /\ trades' = <<>>

AnalyzeTradesStep ==
    /\ self.class \in {"ATR", "MR", "VC"} /\ i >= 1
    /\ trades' = analyze_trades(buy_dates, sell_dates)
    /\ UNCHANGED <<svars, bvars, buy_dates, sell_dates, ovars>>

NextTrades ==
    \/ MAStep /\ KeepSignals
    \/ DualStep /\ KeepSignals
    \/ BandStep /\ KeepSignals
    \/ BoxStep /\ KeepSignals
    \/ ATRStep /\ KeepSignals
    \/ MRStep /\ KeepSignals
    \/ VCStep /\ KeepSignals
    \/ AnalyzeTradesStep

\* the strategy objects as their constructors make them by default
InitTrades == Init /\ self.trailing_stop /\ self.use_t1_rule

SpecTrades == InitTrades /\ [][NextTrades]_vars

----------------------------------------------------------------------------
(* BatchDataLoader.load_single_stock and                                    *)
(* EfficientBacktestEngine.calculate_performance_metrics, called on their   *)
(* own                                                                      *)

\* the least number of rows load_single_stock accepts and the least number of
\* rows calculate_performance_metrics computes on
min_bars == 100
min_points == 50

\* the most rows dated before 2015-01-01 in a file, and the most rows of an
\* equity curve
MaxOldBars == 2
MaxPoints == 52

\* a CSV file: whether pandas reads it and parses its dates, whether it has
\* the six required columns, its rows dated before 2015-01-01 and its rows
\* dated 2015-01-01 or later
Files ==
    [readable : BOOLEAN, has_columns : BOOLEAN,
     old_rows : 0..MaxOldBars, new_rows : (min_bars - 2)..(min_bars + 1)]

\* a row selection that keeps the rows of every date
rows_of_all_dates(f) == f.old_rows + f.new_rows

\* len(df) after df = df[df.index >= '2015-01-01']
rows_since_2015(f) == f.new_rows

load_single_stock(f) ==
    IF ~f.readable THEN [kind |-> "None"]
    ELSE IF ~f.has_columns THEN [kind |-> "None"]
    ELSE IF rows_since_2015(f) < min_bars THEN [kind |-> "None"]
    ELSE [kind |-> "stock", rows |-> rows_since_2015(f)]

\* a length test that also turns away a curve of exactly min_points rows
too_short_or_equal(n) == n <= min_points

\* len(df) < 50
too_short(n) == n < min_points

\* a summary that is computed only on curves longer than the loader's minimum
calculate_performance_metrics_above_min_bars(n) ==
    IF n <= min_bars THEN [kind |-> "None"]
    ELSE [kind |-> "performance", data_days |-> n, test_status |-> "success"]

\* the summary of an equity curve of n rows: its size and its status cell
calculate_performance_metrics(n) ==
    IF too_short(n) THEN [kind |-> "None"]
    ELSE [kind |-> "performance", data_days |-> n, test_status |-> "success"]

Calls ==
    {[fn |-> "load_single_stock", file |-> f] : f \in Files}
    \cup {[fn |-> "calculate_performance_metrics", n |-> n] : n \in 0..MaxPoints}

\* no strategy object is at work
StrategyIdle ==
    /\ self = [class |-> "MA", trailing_stop |-> TRUE, use_t1_rule |-> TRUE]
    /\ i = 0 /\ date = 0 /\ bar = ZeroBar /\ st = ZeroState /\ row = ZeroRow
    /\ self_signals = [kind |-> "None"] /\ data = <<>>

InitCalls ==
    /\ StrategyIdle /\ BTIdle /\ TradesIdle /\ BatchIdle
    /\ call \in Calls
    /\ ret = [kind |-> "pending"]

LoadSingleStockCall ==
    /\ call.fn = "load_single_stock" /\ ret.kind = "pending"
    /\ ret' = load_single_stock(call.file)
    /\ UNCHANGED <<svars, bvars, tvars, call, bavars, self_signals, data>>

CalculatePerformanceMetricsCall ==
    /\ call.fn = "calculate_performance_metrics" /\ ret.kind = "pending"
    /\ ret' = calculate_performance_metrics(call.n)
    /\ UNCHANGED <<svars, bvars, tvars, call, bavars, self_signals, data>>

NextCalls == LoadSingleStockCall \/ CalculatePerformanceMetricsCall

SpecCalls == InitCalls /\ [][NextCalls]_vars

----------------------------------------------------------------------------
(* BatchBacktester.run_batch_backtest *)

\* the most files in data_folder
MaxStocks == 2

\* where the evaluation of a stock raises an exception, if it does
Faults == {"none", "signals", "backtest", "metrics"}

\* the files of a batch, each with the fault of its data
BatchFiles ==
    {[readable |-> TRUE, has_columns |-> hc, old_rows |-> 0, new_rows |-> n,
      fault |-> x] :
        hc \in BOOLEAN, n \in {min_bars - 1, min_bars}, x \in Faults}

RECURSIVE SeqsUpTo(_, _)
SeqsUpTo(S, n) ==
    IF n = 0 THEN {<<>>}
    ELSE LET shorter == SeqsUpTo(S, n - 1)
         IN shorter \cup {Append(q, x) : q \in {r \in shorter : Len(r) = n - 1}, x \in S}

InitBatch ==
    /\ StrategyIdle /\ BTIdle /\ TradesIdle /\ CallsIdle
    /\ batch \in [files : SeqsUpTo(BatchFiles, MaxStocks), strategy_exists : BOOLEAN]
    /\ pc = "load" /\ file_i = 0 /\ stock_data_dict = <<>> /\ stock_i = 0
    /\ all_results = <<>> /\ failed_stocks = <<>> /\ results_df = [kind |-> "none"]
    /\ summary_stats = [kind |-> "None"]

\* one iteration of the loop of load_all_stocks; the stock code is the place
\* of the file in the list
LoadFileStep ==
    /\ pc = "load" /\ file_i < Len(batch.files)
    /\ LET f == batch.files[file_i + 1]
           df == load_single_stock(f)
       IN stock_data_dict' =
            IF df.kind = "stock"
            THEN Append(stock_data_dict,
                        [stock_code |-> file_i + 1, rows |-> df.rows, fault |-> f.fault])
            ELSE stock_data_dict
    /\ file_i' = file_i + 1
    /\ UNCHANGED <<svars, bvars, tvars, cvars, self_signals, data, batch, pc, stock_i, all_results,
                   failed_stocks, results_df, summary_stats>>

\* after the loading: no stock, or no such strategy class, returns None
StartBacktestStep ==
    /\ pc = "load" /\ file_i = Len(batch.files)
    /\ IF stock_data_dict = <<>> \/ ~batch.strategy_exists
       THEN pc' = "done" /\ results_df' = [kind |-> "None"]
       ELSE pc' = "loop" /\ results_df' = results_df
    /\ UNCHANGED <<svars, bvars, tvars, cvars, self_signals, data, batch, file_i, stock_data_dict, stock_i,
                   all_results, failed_stocks, summary_stats>>

\* the body of the try of one stock: generate_signals, run_backtest and
\* calculate_performance_metrics, any of which may raise
evaluate_stock(stock) ==
    IF stock.fault \in {"signals", "backtest"} THEN [kind |-> "raise"]
    ELSE IF stock.fault = "metrics" THEN [kind |-> "raise"]
    ELSE calculate_performance_metrics(stock.rows)

\* a loop body whose except clause ends the loop
ProcessStock_aborting(stock, results, failed) ==
    LET performance == evaluate_stock(stock)
    IN IF performance.kind = "performance"
       THEN [all_results |-> Append(results, [stock_code |-> stock.stock_code,
                                              data_days |-> performance.data_days,
                                              test_status |-> performance.test_status]),
             failed_stocks |-> failed, go_on |-> TRUE]
       ELSE [all_results |-> results,
             failed_stocks |-> Append(failed, stock.stock_code),
             go_on |-> performance.kind # "raise"]

\* one iteration of the loop over stock_data_dict
ProcessStock(stock, results, failed) ==
    LET performance == evaluate_stock(stock)
    IN IF performance.kind = "performance"
       THEN [all_results |-> Append(results, [stock_code |-> stock.stock_code,
                                              data_days |-> performance.data_days,
                                              test_status |-> performance.test_status]),
             failed_stocks |-> failed, go_on |-> TRUE]
       ELSE [all_results |-> results,
             failed_stocks |-> Append(failed, stock.stock_code), go_on |-> TRUE]

ProcessStockStep ==
    /\ pc = "loop" /\ stock_i < Len(stock_data_dict)
    /\ LET o == ProcessStock(stock_data_dict[stock_i + 1], all_results, failed_stocks)
       IN /\ all_results' = o.all_results
          /\ failed_stocks' = o.failed_stocks
          /\ stock_i' = IF o.go_on THEN stock_i + 1 ELSE Len(stock_data_dict)
    /\ UNCHANGED <<svars, bvars, tvars, cvars, self_signals, data, batch, pc, file_i, stock_data_dict,
                   results_df, summary_stats>>

\* the counts of the summary: the rows of results_df, the rows whose status
\* cell reads success, and the difference of the two
generate_summary_statistics(df) ==
    IF df.kind # "DataFrame" \/ Len(df.rows) = 0 THEN [kind |-> "None"]
    ELSE LET total_stocks == Len(df.rows)
             successful_stocks ==
                 Cardinality({r \in 1..Len(df.rows) : df.rows[r].test_status = "success"})
         IN [kind |-> "summary", total_stocks |-> total_stocks,
             successful_stocks |-> successful_stocks,
             failed_stocks |-> total_stocks - successful_stocks]

\* after the loop: the results frame and its summary, or None when
\* all_results is empty
SaveResultsStep ==
    /\ pc = "loop" /\ stock_i = Len(stock_data_dict)
    /\ pc' = "done"
    /\ results_df' = IF all_results # <<>>
                     THEN [kind |-> "DataFrame", rows |-> all_results]
                     ELSE [kind |-> "None"]
    /\ summary_stats' = IF all_results # <<>>
                        THEN generate_summary_statistics(results_df')
                        ELSE summary_stats
    /\ UNCHANGED <<svars, bvars, tvars, cvars, self_signals, data, batch, file_i, stock_data_dict, stock_i,
                   all_results, failed_stocks>>

NextBatch == LoadFileStep \/ StartBacktestStep \/ ProcessStockStep \/ SaveResultsStep

SpecBatch == InitBatch /\ [][NextBatch]_vars

----------------------------------------------------------------------------
(* One strategy object and one engine for all the stocks of a batch: the    *)
(* calls of generate_signals on the object, and the calls of run_backtest   *)
(* on the engine, one per stock                                             *)

\* locals that a call would inherit from the call before
NewLocals_kept(old) == old

\* the loop's local variables at the start of a call of generate_signals,
\* whatever the call before left in its own
NewLocals(old) == ZeroState

\* what the return of generate_signals leaves in the object: a
\* MovingAverageStrategy keeps the frame in self.signals, the other classes
\* assign no attribute
ObjectAfterReturn(s, attr, last_row) ==
    IF s.class = "MA" THEN [kind |-> "frame", position |-> last_row.position]
    ELSE attr

\* the first stock: pc tells which of the two objects the behaviour follows
InitReuse ==
    /\ TradesIdle /\ CallsIdle
    /\ batch = [files |-> <<>>, strategy_exists |-> TRUE]
    /\ file_i = 0 /\ stock_data_dict = <<>> /\ stock_i = 0
    /\ all_results = <<>> /\ failed_stocks = <<>> /\ results_df = [kind |-> "none"]
    /\ summary_stats = [kind |-> "None"]
    /\ self_signals = [kind |-> "None"] /\ data = <<>>
    /\ i = 0 /\ date = 0 /\ st = ZeroState /\ row = ZeroRow
    /\ \/ /\ pc = "signals"
          /\ self \in {x \in Selves : x.trailing_stop /\ x.use_t1_rule}
          /\ bar \in Bar0(self.class)
          /\ BTIdle
       \/ /\ pc = "backtest"
          /\ self \in {x \in Selves : x.class \in {"MA", "VC"} /\ x.use_t1_rule}
          /\ bar = ZeroBar
          /\ bt_i = 0
          /\ sig \in SignalRow0
          /\ cash = initial_capital * 10000
          /\ position = 0
          /\ eq = BT_init_cells(0, sig.close)

\* generate_signals returns and is called on the frame of the next stock
GenerateSignalsCall ==
    /\ pc = "signals" /\ i >= 1 /\ stock_i + 1 < MaxStocks
    /\ self_signals' = ObjectAfterReturn(self, self_signals, row)
    /\ i' = 0 /\ date' = 0
    /\ bar' \in Bar0(self.class)
    /\ st' = NewLocals(st)
    /\ row' = ZeroRow
    /\ stock_i' = stock_i + 1
    /\ UNCHANGED <<self, bvars, tvars, cvars, data, batch, pc, file_i, stock_data_dict,
                   all_results, failed_stocks, results_df, summary_stats>>

\* run_backtest returns and is called on the signals of the next stock
RunBacktestCall ==
    /\ pc = "backtest" /\ bt_i >= 1 /\ stock_i + 1 < MaxStocks
    /\ bt_i' = 0
    /\ sig' \in SignalRow0
    /\ cash' = initial_capital * 10000
    /\ position' = 0
    /\ eq' = BT_init_cells(0, sig'.close)
    /\ stock_i' = stock_i + 1
    /\ UNCHANGED <<svars, tvars, cvars, self_signals, data, batch, pc, file_i,
                   stock_data_dict, all_results, failed_stocks, results_df, summary_stats>>

NextReuse ==
    \/ pc = "signals" /\ MAStep /\ RowOnly
    \/ pc = "signals" /\ DualStep /\ RowOnly
    \/ pc = "signals" /\ BandStep /\ RowOnly
    \/ pc = "signals" /\ BoxStep /\ RowOnly
    \/ pc = "signals" /\ ATRStep /\ RowOnly
    \/ pc = "signals" /\ MRStep /\ RowOnly
    \/ pc = "signals" /\ VCStep /\ RowOnly
    \/ GenerateSignalsCall
    \/ pc = "backtest" /\ BacktestStep
    \/ RunBacktestCall

SpecReuse == InitReuse /\ [][NextReuse]_vars

----------------------------------------------------------------------------
(* generate_signals and run_backtest on a frame that is known as a whole:   *)
(* the rows are read by their place in the frame                            *)

\* the rows of a frame
FrameLen == 4

box_period == 20

\* a bar whose high and low, where the class has them, are its close
Flat(b) == b.high \in {0, b.close} /\ b.low \in {0, b.close}

\* the rows t >= 1 of the frames of class c
FrameBars(c, t) ==
    IF c = "MA" THEN {b \in MABars : Flat(b) /\ b.volOK /\ b.ma # 8}
    ELSE IF c = "Dual" THEN {b \in DualBars : Flat(b) /\ b.close # 13}
    ELSE IF c = "Band" THEN {b \in BandBars : Flat(b) /\ b.ma = 10}
    ELSE IF c = "Box" THEN {b \in BoxBar0 : Flat(b)}
    ELSE IF c = "ATR" THEN {b \in ATRBars(t) : Flat(b) /\ b.close # 13 /\ b.volOK /\ b.atr = 1}
    ELSE IF c = "MR" THEN {b \in MRBars : b.ma = 12 /\ b.hw = 1 /\ b.rsi \in {10, 80}}
    ELSE {b \in VCBars(t) : b.close # 13 /\ b.atr = 1}

\* the frames of n rows of class c, indicator columns included except
\* box_high and box_low
RECURSIVE Frames(_, _)
Frames(c, n) ==
    IF n = 1 THEN {<<b>> : b \in {x \in Bar0(c) : Flat(x)}}
    ELSE {Append(f, b) : f \in Frames(c, n - 1), b \in FrameBars(c, n - 1)}

\* the signals frames of n rows that a strategy of the class can return
RECURSIVE SignalFrames(_, _)
SignalFrames(c, n) ==
    IF n = 1 THEN {<<r>> : r \in SignalRow0}
    ELSE UNION {{Append(f, r) : r \in SignalRows(c, f[Len(f)].position)} :
                    f \in SignalFrames(c, n - 1)}

\* row t of a frame; outside the frame a shifted column reads NaN
Cell(df, t) == IF t >= 0 /\ t < Len(df) THEN df[t + 1] ELSE [ZeroBar EXCEPT !.nan = TRUE]

\* a shift that reads the row after
shift_ahead(df, t) == Cell(df, t + 1)

\* column.shift(1) at row t
shift(df, t) == Cell(df, t - 1)

SetMax(S) == CHOOSE x \in S : \A y \in S : y <= x
SetMin(S) == CHOOSE x \in S : \A y \in S : y >= x

\* row t >= 1 with box_high and box_low: the rolling extremes over
\* box_period rows, min_periods 1, shifted by one row
Box_indicators(df, t) ==
    LET window == {k \in 0..(t - 1) : k > t - 1 - box_period}
    IN [Cell(df, t) EXCEPT !.box_high = SetMax({Cell(df, k).high : k \in window}),
                           !.box_low = SetMin({Cell(df, k).low : k \in window})]

\* the row of the frame that the loop reads at t
IndicatorRow(s, df, t) == IF s.class = "Box" THEN Box_indicators(df, t) ELSE Cell(df, t)

\* one iteration of the loop of generate_signals at row t >= 1 of df; the
\* date of row t is t
FrameRow(s, state, df, t) ==
    LET b == IndicatorRow(s, df, t)
        p == shift(df, t)
    IN IF s.class = "MA" THEN MA_body(state, b, MA_signal_raw(b, p))
       ELSE IF s.class = "Dual" THEN Dual_body(state, b, Dual_signal_raw(b, p))
       ELSE IF s.class = "Band" THEN Band_body(state, b, Band_signal_raw(b, p))
       ELSE IF s.class = "Box" THEN Box_body(state, b)
       ELSE IF s.class = "ATR"
            THEN ATR_body(s.trailing_stop, state, b, ATR_signal_raw(b, p))
       ELSE IF s.class = "MR" THEN MR_body(s.use_t1_rule, state, b, t)
       ELSE VC_body(s.use_t1_rule, t, state, b, p, t)

\* generate_signals(df): the locals and the row t after the iterations 1..t
RECURSIVE generate_signals(_, _, _)
generate_signals(s, df, t) ==
    IF t = 0 THEN [st |-> ZeroState, row |-> ZeroRow]
    ELSE FrameRow(s, generate_signals(s, df, t - 1).st, df, t)

\* one iteration of the loop of run_backtest at row t >= 1 of the signals
\* frame; prev_position is position.shift(1).fillna(0)
BT_FrameRow(c, pos, df, t) == BT_body(c, pos, df[t].position, df[t + 1])

\* run_backtest(df): the locals and the cells of row t after the
\* iterations 1..t
RECURSIVE run_backtest(_, _)
run_backtest(df, t) ==
    IF t = 0
    THEN [cash |-> initial_capital * 10000, position |-> 0,
          cells |-> BT_init_cells(0, df[1].close)]
    ELSE LET before == run_backtest(df, t - 1)
         IN BT_FrameRow(before.cash, before.position, df, t)

InitFrame ==
    /\ TradesIdle /\ CallsIdle
    /\ batch = [files |-> <<>>, strategy_exists |-> TRUE]
    /\ file_i = 0 /\ stock_data_dict = <<>> /\ stock_i = 0
    /\ all_results = <<>> /\ failed_stocks = <<>> /\ results_df = [kind |-> "none"]
    /\ summary_stats = [kind |-> "None"]
    /\ self_signals = [kind |-> "None"]
    /\ i = 0 /\ date = 0 /\ st = ZeroState /\ row = ZeroRow
    /\ \/ /\ pc = "signals"
          /\ self \in {x \in Selves : x.trailing_stop /\ x.use_t1_rule}
          /\ data \in Frames(self.class, FrameLen)
          /\ bar = data[1]
          /\ BTIdle
       \/ /\ pc = "backtest"
          /\ self \in {x \in Selves : x.class \in {"MA", "VC"} /\ x.use_t1_rule}
          /\ data \in SignalFrames(self.class, FrameLen)
          /\ bar = ZeroBar
          /\ bt_i = 0
          /\ sig = data[1]
          /\ cash = initial_capital * 10000
          /\ position = 0
          /\ eq = BT_init_cells(0, sig.close)

FrameStep ==
    /\ pc = "signals" /\ i + 1 < Len(data)
    /\ LET r == FrameRow(self, st, data, i + 1)
       IN st' = r.st /\ row' = r.row
    /\ bar' = IndicatorRow(self, data, i + 1)
    /\ i' = i + 1 /\ date' = date + 1
    /\ UNCHANGED <<self, bvars, tvars, ovars>>

BacktestFrameStep ==
    /\ pc = "backtest" /\ bt_i + 1 < Len(data)
    /\ LET o == BT_FrameRow(cash, position, data, bt_i + 1)
       IN cash' = o.cash /\ position' = o.position /\ eq' = o.cells
    /\ sig' = data[bt_i + 2]
    /\ bt_i' = bt_i + 1
    /\ UNCHANGED <<svars, tvars, ovars>>

NextFrame == FrameStep \/ BacktestFrameStep

SpecFrame == InitFrame /\ [][NextFrame]_vars

----------------------------------------------------------------------------
(* MovingAverageStrategy on the frame with closes 10 10 10 12 12 9 9        *)

\* prices of this frame are counted in 1/PriceUnit, so that the mean of up
\* to seven of them is a whole number
PriceUnit == 3 * 4 * 5 * 7

ma_period == 20

ScenarioCloses == <<10, 10, 10, 12, 12, 9, 9>>

RECURSIVE SumOf(_, _, _)
SumOf(xs, from, to) == IF from > to THEN 0 ELSE xs[to] + SumOf(xs, from, to - 1)

\* close.rolling(window, min_periods=1).mean() at row t of the closes
rolling_mean(closes, t, window) ==
    LET first == Max(0, t - window + 1)
    IN (SumOf(closes, first + 1, t + 1) * PriceUnit) \div (t - first + 1)

\* the frame of calculate_indicators for bars with high = low = close;
\* vols[t + 1] tells whether volume_ratio of row t is above 1.2
MA_indicators(closes, vols) ==
    [k \in 1..Len(closes) |->
        [ZeroBar EXCEPT !.close = closes[k] * PriceUnit,
                        !.high = closes[k] * PriceUnit,
                        !.low = closes[k] * PriceUnit,
                        !.ma = rolling_mean(closes, k - 1, ma_period),
                        !.volOK = vols[k]]]

\* the frames of the closes whose volume confirms the cross at row 3
InitScenario ==
    /\ TradesIdle /\ CallsIdle /\ BTIdle
    /\ batch = [files |-> <<>>, strategy_exists |-> TRUE]
    /\ file_i = 0 /\ stock_data_dict = <<>> /\ stock_i = 0
    /\ all_results = <<>> /\ failed_stocks = <<>> /\ results_df = [kind |-> "none"]
    /\ summary_stats = [kind |-> "None"]
    /\ self_signals = [kind |-> "None"]
    /\ i = 0 /\ date = 0 /\ st = ZeroState /\ row = ZeroRow
    /\ pc = "signals"
    /\ self = [class |-> "MA", trailing_stop |-> TRUE, use_t1_rule |-> TRUE]
    /\ data \in {MA_indicators(ScenarioCloses, v) :
                    v \in {x \in [1..Len(ScenarioCloses) -> BOOLEAN] : x[4]}}
    /\ bar = data[1]

SpecScenario == InitScenario /\ [][FrameStep]_vars

----------------------------------------------------------------------------
(* The four loops with a percentage trailing stop, on frames whose highs    *)
(* differ from the closes                                                   *)

PctTrailingClasses == {"MA", "Dual", "Band", "Box"}

\* stop_loss_pct of the class, in percent
StopLossPct(c) == IF c = "Box" THEN box_stop_loss_pct ELSE stop_loss_pct

\* the rows of these frames: low = close <= high
TrailBars(c, t) ==
    LET S == IF c = "MA" THEN {b \in MABars : b.volOK /\ b.ma # 8}
             ELSE IF c = "Dual" THEN {b \in DualBars : b.diff >= 0}
             ELSE IF c = "Band" THEN {b \in BandBars : b.ma = 10 /\ b.hw >= 1}
             ELSE {b \in BoxBar0 : b.close >= 98}
    IN IF t = 0
       THEN {b \in Bar0(c) : b.low = b.close /\ (c = "Box" => b.close >= 98)}
       ELSE {b \in S : b.low = b.close /\ (b.close >= 12 \/ c = "Box")}

RECURSIVE TrailFrames(_, _)
TrailFrames(c, n) ==
    IF n = 1 THEN {<<b>> : b \in TrailBars(c, 0)}
    ELSE {Append(f, b) : f \in TrailFrames(c, n - 1), b \in TrailBars(c, n - 1)}

InitTrail ==
    /\ TradesIdle /\ CallsIdle /\ BTIdle
    /\ batch = [files |-> <<>>, strategy_exists |-> TRUE]
    /\ file_i = 0 /\ stock_data_dict = <<>> /\ stock_i = 0
    /\ all_results = <<>> /\ failed_stocks = <<>> /\ results_df = [kind |-> "none"]
    /\ summary_stats = [kind |-> "None"]
    /\ self_signals = [kind |-> "None"]
    /\ i = 0 /\ date = 0 /\ st = ZeroState /\ row = ZeroRow
    /\ pc = "signals"
    /\ self \in {x \in Selves : x.class \in PctTrailingClasses}
    /\ data \in TrailFrames(self.class, FrameLen)
    /\ bar = data[1]

SpecTrail == InitTrail /\ [][FrameStep]_vars

----------------------------------------------------------------------------
(* EfficientBacktestEngine.calculate_performance_metrics on an equity curve *)

\* the capital of a row in units of initial_capital / 10000; the row's
\* cumulative_returns cell is the product of the daily capital ratios from
\* row 0 on, that is capital / initial_capital, and is this number in
\* units of 1/10000
CurveValues == {9000, 9500, 10000, 10300}

\* the most rows of a curve in a row whose capital may differ from the row
\* before, and the rows of unchanged capital before them
MaxChanges == 3
ChangeStarts == {1, 10, 46}

\* the curve of n rows that stays at the initial capital for p rows, takes
\* the values w on the rows after them and keeps the last of these
EquityCurve(n, p, w) ==
    [t \in 1..n |->
        LET v == IF t <= p THEN 10000 ELSE w[Min(t - p, MaxChanges)]
        IN [capital |-> v, cumulative_returns |-> v]]

EquityCurves ==
    {EquityCurve(n, p, w) : n \in {min_points - 1, min_points, MaxPoints},
                            p \in ChangeStarts, w \in [1..MaxChanges -> CurveValues]}

\* cumulative_returns.expanding().max() at row t
running_max(df, t) == SetMax({df[s].cumulative_returns : s \in 1..t})

\* (cumulative_returns - running_max) / running_max at row t, as a fraction
drawdown(df, t) ==
    [num |-> df[t].cumulative_returns - running_max(df, t), den |-> running_max(df, t)]

\* drawdown.min(); the denominators are positive
max_drawdown(df) ==
    LET D == {drawdown(df, t) : t \in 1..Len(df)}
    IN CHOOSE d \in D : \A e \in D : d.num * e.den <= e.num * d.den

\* a report that cuts the digits after the fourth decimal
truncate4(q) == -((-q.num * 10000) \div q.den)

\* round(q, 4) of a fraction q <= 0, in units of 1/10000; Python rounds
\* a tie to the even digit
round4(q) ==
    LET a == -q.num * 10000
        whole == a \div q.den
        rest == a % q.den
    IN IF 2 * rest > q.den \/ (2 * rest = q.den /\ whole % 2 = 1)
       THEN -(whole + 1) ELSE -whole

\* a loop that goes on counting after a row without a loss
RECURSIVE loss_streak_no_reset(_, _)
loss_streak_no_reset(df, t) ==
    IF t <= 1 THEN [negative_streak |-> 0, max_negative_streak |-> 0]
    ELSE LET before == loss_streak_no_reset(df, t - 1)
             pnl == df[t].capital - df[t - 1].capital
         IN IF pnl < 0
            THEN [negative_streak |-> before.negative_streak + 1,
                  max_negative_streak |->
                      Max(before.max_negative_streak, before.negative_streak + 1)]
            ELSE before

\* the loop over daily_pnl = capital.diff().dropna(), after the row t
RECURSIVE loss_streak(_, _)
loss_streak(df, t) ==
    IF t <= 1 THEN [negative_streak |-> 0, max_negative_streak |-> 0]
    ELSE LET before == loss_streak(df, t - 1)
             pnl == df[t].capital - df[t - 1].capital
         IN IF pnl < 0
            THEN [negative_streak |-> before.negative_streak + 1,
                  max_negative_streak |->
                      Max(before.max_negative_streak, before.negative_streak + 1)]
            ELSE [before EXCEPT !.negative_streak = 0]

\* the performance dict of an equity curve, as far as the drawdown and the
\* loss streak go
performance_of_curve(df) ==
    IF too_short(Len(df)) THEN [kind |-> "None"]
    ELSE [kind |-> "performance", data_days |-> Len(df),
          max_drawdown |-> round4(max_drawdown(df)),
          max_consecutive_loss_days |-> loss_streak(df, Len(df)).max_negative_streak]

InitMetrics ==
    /\ StrategyIdle /\ BTIdle /\ TradesIdle /\ BatchIdle
    /\ call \in {[fn |-> "calculate_performance_metrics", equity_curve |-> c] :
                    c \in EquityCurves}
    /\ ret = [kind |-> "pending"]

MetricsOfCurveCall ==
    /\ call.fn = "calculate_performance_metrics" /\ ret.kind = "pending"
    /\ ret' = performance_of_curve(call.equity_curve)
    /\ UNCHANGED <<svars, bvars, tvars, call, bavars, self_signals, data>>

SpecMetrics == InitMetrics /\ [][MetricsOfCurveCall]_vars

----------------------------------------------------------------------------
(* The trade statistics of calculate_performance_metrics *)

\* a count that takes every buy signal for a trade
total_trades_of_buys(buy_signals, sell_signals) == buy_signals

\* min(buy_signals, sell_signals), the two being the numbers of rows whose
\* signal cell is 1 and -1
total_trades(buy_signals, sell_signals) == Min(buy_signals, sell_signals)

----------------------------------------------------------------------------
(* calculate_indicators of the band, ATR and mean-reversion strategies:     *)
(* the rolling columns, with the rows that pandas leaves without a value    *)

\* a cell without a value, and a cell holding the fraction n / d
NaN == [nan |-> TRUE, num |-> 0, den |-> 1]
Number(n, d) == [nan |-> FALSE, num |-> n, den |-> d]

RECURSIVE SumOver(_, _)
SumOver(f, S) ==
    IF S = {} THEN 0
    ELSE LET k == CHOOSE x \in S : TRUE IN f[k] + SumOver(f, S \ {k})

\* the rows of the window ending at row t (rows from 1) that hold a value
observations(col, t, window) == {k \in Max(1, t - window + 1)..t : ~col[k].nan}

\* col.rolling(window, min_periods=1).mean() at row t, for a column of whole
\* numbers: the mean of the observations, no value when there is none
rolling_mean_min1(col, t, window) ==
    LET obs == observations(col, t, window)
    IN IF obs = {} THEN NaN
       ELSE Number(SumOver([k \in obs |-> col[k].num], obs), Cardinality(obs))

\* col.rolling(window, min_periods=1).std() at row t, kept squared: the
\* sample variance (ddof = 1), which has no value for fewer than two
\* observations
rolling_std_min1(col, t, window) ==
    LET obs == observations(col, t, window)
        n == Cardinality(obs)
        s == SumOver([k \in obs |-> col[k].num], obs)
        q == SumOver([k \in obs |-> col[k].num * col[k].num], obs)
    IN IF n < 2 THEN NaN ELSE Number(n * q - s * s, n * (n - 1))

\* mean + k * std: a value only where both have one
band(mean, k, std) == [nan |-> mean.nan \/ std.nan, mean |-> mean, k |-> k, std |-> std]

close_column(df) == [k \in 1..Len(df) |-> Number(df[k].close, 1)]

\* TR: np.maximum of high - low, |high - close.shift(1)| and
\* |low - close.shift(1)|; np.maximum hands a missing operand on
true_range(df) ==
    [k \in 1..Len(df) |->
        IF k = 1 THEN NaN
        ELSE Number(Max(df[k].high - df[k].low,
                        Max(Abs(df[k].high - df[k - 1].close),
                            Abs(df[k].low - df[k - 1].close))), 1)]

\* gain and loss: np.where on close.diff(), 0 where the test is False (the
\* first row, whose diff is missing, included)
gain_column(df) ==
    [k \in 1..Len(df) |->
        Number(IF k > 1 /\ df[k].close > df[k - 1].close
               THEN df[k].close - df[k - 1].close ELSE 0, 1)]
loss_column(df) ==
    [k \in 1..Len(df) |->
        Number(IF k > 1 /\ df[k].close < df[k - 1].close
               THEN df[k - 1].close - df[k].close ELSE 0, 1)]

\* a ratio that divides by the average loss as it is: x / 0 is inf for
\* x > 0 and missing for x = 0
rs_without_replace(avg_gain, avg_loss) ==
    IF avg_loss.num = 0 /\ avg_gain.num = 0 THEN NaN
    ELSE Number(avg_gain.num * avg_loss.den, avg_gain.den * avg_loss.num)

\* rs = avg_gain / avg_loss.replace(0, np.nan)
rs(avg_gain, avg_loss) ==
    IF avg_loss.num = 0 THEN NaN
    ELSE Number(avg_gain.num * avg_loss.den, avg_gain.den * avg_loss.num)

\* RSI = 100 - 100 / (1 + rs), then fillna(50)
RSI(avg_gain, avg_loss) ==
    LET r == rs(avg_gain, avg_loss)
    IN IF r.nan THEN Number(50, 1)
       ELSE Number(100 * (r.num + r.den) - 100 * r.den, r.num + r.den)

Band_calculate_indicators(s, df) ==
    [t \in 1..Len(df) |->
        LET MA == rolling_mean_min1(close_column(df), t, s.ma_period)
            std == rolling_std_min1(close_column(df), t, s.ma_period)
        IN [MA |-> MA, std |-> std,
            upper_band |-> band(MA, s.std_dev, std),
            lower_band |-> band(MA, -s.std_dev, std)]]

ATR_calculate_indicators(s, df) ==
    [t \in 1..Len(df) |->
        [MA_short |-> rolling_mean_min1(close_column(df), t, s.short_ma),
         MA_long |-> rolling_mean_min1(close_column(df), t, s.long_ma),
         TR |-> true_range(df)[t],
         ATR |-> rolling_mean_min1(true_range(df), t, s.atr_period)]]

MR_calculate_indicators(s, df) ==
    [t \in 1..Len(df) |->
        LET BB_middle == rolling_mean_min1(close_column(df), t, s.bb_period)
            BB_std == rolling_std_min1(close_column(df), t, s.bb_period)
            avg_gain == rolling_mean_min1(gain_column(df), t, s.rsi_period)
            avg_loss == rolling_mean_min1(loss_column(df), t, s.rsi_period)
        IN [BB_middle |-> BB_middle, BB_std |-> BB_std,
            BB_upper |-> band(BB_middle, s.bb_std, BB_std),
            BB_lower |-> band(BB_middle, -s.bb_std, BB_std),
            avg_gain |-> avg_gain, avg_loss |-> avg_loss,
            RSI |-> RSI(avg_gain, avg_loss)]]

calculate_indicators(s, df) ==
    CASE s.class = "Band" -> Band_calculate_indicators(s, df)
      [] s.class = "ATR" -> ATR_calculate_indicators(s, df)
      [] s.class = "MR" -> MR_calculate_indicators(s, df)

\* the objects: the default periods, and periods of two bars, which the
\* frames outlast
IndicatorObjects ==
    {[class |-> "Band", ma_period |-> p, std_dev |-> 2] : p \in {2, 20}}
    \cup {[class |-> "ATR", short_ma |-> p, long_ma |-> 20, atr_period |-> q] :
             p \in {2, 5}, q \in {2, 20}}
    \cup {[class |-> "MR", bb_period |-> p, bb_std |-> 2, rsi_period |-> q] :
             p \in {2, 20}, q \in {2, 7}}

\* daily bars with low = close
IndicatorBars == {[high |-> c + d, low |-> c, close |-> c] : c \in Prices, d \in {0, 1}}

IndicatorFrames == UNION {[1..n -> IndicatorBars] : n \in 1..FrameLen}

InitIndicators ==
    /\ StrategyIdle /\ BTIdle /\ TradesIdle /\ BatchIdle
    /\ call \in {[fn |-> "calculate_indicators", self |-> s, data |-> df] :
                    s \in IndicatorObjects, df \in IndicatorFrames}
    /\ ret = [kind |-> "pending"]

CalculateIndicatorsCall ==
    /\ call.fn = "calculate_indicators" /\ ret.kind = "pending"
    /\ ret' = [kind |-> "indicators", df |-> calculate_indicators(call.self, call.data)]
    /\ UNCHANGED <<svars, bvars, tvars, call, bavars, self_signals, data>>

SpecIndicators == InitIndicators /\ [][CalculateIndicatorsCall]_vars

----------------------------------------------------------------------------
(* The loops with a time exit, run for as many daily bars as a position can *)
(* be held                                                                  *)

TimedClasses == {"Box", "ATR", "MR", "VC"}

\* hold_period of the box strategy, and the max_hold_days literals of the
\* three other loops
max_hold_days(c) ==
    CASE c = "Box" -> hold_period
      [] c = "ATR" -> 60
      [] c = "MR" -> 10
      [] c = "VC" -> 30

\* rows of the frame: the first row that can enter is row 5 for the ATR
\* strategy and row 1 for the others
FrameRows(c) == max_hold_days(c) + (IF c = "ATR" THEN 6 ELSE 3)

\* the rows of a long frame: every raw signal at every row, on closes that
\* leave a position open
LongBars(c, t, p) ==
    CASE c = "Box" -> BoxBars(t, p)
      [] c = "ATR" -> {b \in ATRBars(t) : /\ b.high = b.close /\ b.low = b.close
                                          /\ b.close >= 12 /\ b.atr = 2 /\ b.volOK
                                          /\ (t >= 5 => b.slopeOK)}
      [] c = "MR" -> MRBars
      [] c = "VC" -> {b \in VCBars(t) : b.close >= 12 /\ b.atr >= 1}

\* one iteration of the loop of the class
loop_body(s, t, state, b, p, current_date) ==
    CASE s.class = "Box" -> Box_body(state, b)
      [] s.class = "ATR" -> ATR_body(s.trailing_stop, state, b, ATR_signal_raw(b, p))
      [] s.class = "MR" -> MR_body(s.use_t1_rule, state, b, current_date)
      [] s.class = "VC" -> VC_body(s.use_t1_rule, t, state, b, p, current_date)

InitHold ==
    /\ self \in {s \in Selves : s.class \in TimedClasses}
    /\ i = 0 /\ date = 0
    /\ bar \in Bar0(self.class)
    /\ st = ZeroState /\ row = ZeroRow
    /\ self_signals = [kind |-> "None"] /\ data = <<>>
    /\ BTIdle /\ TradesIdle /\ CallsIdle /\ BatchIdle

LongFrameStep ==
    /\ self.class \in TimedClasses /\ i < FrameRows(self.class)
    /\ \E b \in LongBars(self.class, i + 1, bar), g \in DayGaps :
          LET r == loop_body(self, i + 1, st, b, bar, date + g)
          IN bar' = b /\ st' = r.st /\ row' = r.row /\ date' = date + g
    /\ i' = i + 1
    /\ UNCHANGED <<self, bvars, tvars, ovars>>

SpecHold == InitHold /\ [][LongFrameStep]_vars

----------------------------------------------------------------------------
(* The vectorised signal_raw of the strategies with confirmation filters,   *)
(* on a row and the row before it                                           *)

FilteredClasses == {"MA", "Band", "ATR"}

\* the two boolean masks of the basic signal of row b, p being the row
\* before it
basic_masks(c, b, p) ==
    CASE c = "MA" -> [enter |-> b.close > b.ma /\ p.close <= p.ma,
                      exit |-> b.close < b.ma /\ p.close >= p.ma]
      [] c = "Band" -> [enter |-> b.close > b.ma + b.hw /\ ~p.nan
                                  /\ p.close <= p.ma + p.hw,
                        exit |-> b.close < b.ma - b.hw /\ ~p.nan
                                 /\ p.close >= p.ma - p.hw]
      [] c = "ATR" -> [enter |-> b.diff > 0 /\ p.diff <= 0,
                       exit |-> b.diff < 0 /\ p.diff >= 0]

\* signal_raw before the filters: 1 on the rows of the first mask, then -1
\* on the rows of the second, 0 on the others
basic_signal(m) == IF m.exit THEN -1 ELSE IF m.enter THEN 1 ELSE 0

\* signal_raw after the filters
filtered_signal(c, b, p) ==
    CASE c = "MA" -> MA_signal_raw(b, p)
      [] c = "Band" -> Band_signal_raw(b, p)
      [] c = "ATR" -> ATR_signal_raw(b, p)

\* rows of a band of 4% of the mean, narrower than min_band_width
NarrowBandRows ==
    {[ZeroBar EXCEPT !.close = c, !.high = c, !.low = c, !.ma = 100, !.hw = 2] :
        c \in {97, 100, 103}}

\* the rows of a class, high and low left out (signal_raw reads neither)
FilterRows(c) ==
    {b \in CASE c = "MA" -> MABars
             [] c = "Band" -> BandBars \cup NarrowBandRows
             [] c = "ATR" -> ATRBars(5) : b.high = b.close /\ b.low = b.close}

InitFilters ==
    /\ StrategyIdle /\ BTIdle /\ TradesIdle /\ BatchIdle
    /\ call \in {[fn |-> "signal_raw", class |-> c, row |-> b, shifted |-> p] :
                    c \in FilteredClasses,
                    b \in UNION {FilterRows(x) : x \in FilteredClasses},
                    p \in UNION {FilterRows(x) \cup Bar0(x) : x \in FilteredClasses}}
    /\ call.row \in FilterRows(call.class)
    /\ call.shifted \in FilterRows(call.class) \cup Bar0(call.class)
    /\ ret = [kind |-> "pending"]

SignalRawCall ==
    /\ call.fn = "signal_raw" /\ ret.kind = "pending"
    /\ ret' = [kind |-> "signal_raw",
               basic |-> basic_masks(call.class, call.row, call.shifted),
               signal_raw |-> filtered_signal(call.class, call.row, call.shifted)]
    /\ UNCHANGED <<svars, bvars, tvars, call, bavars, self_signals, data>>

SpecFilters == InitFilters /\ [][SignalRawCall]_vars

----------------------------------------------------------------------------
(* generate_signals of the seven strategies and run_backtest side by side:  *)
(* a behaviour is a run of one loop or a run of the engine                  *)

InitExit == Init \/ InitBT

\* the behaviours that run a loop of generate_signals: they have a row 0
\* with a close, the runs of the engine none
LoopRun == bar # ZeroBar

NextExit ==
    \/ LoopRun /\ MAStep /\ RowOnly
    \/ LoopRun /\ DualStep /\ RowOnly
    \/ LoopRun /\ BandStep /\ RowOnly
    \/ LoopRun /\ BoxStep /\ RowOnly
    \/ LoopRun /\ ATRStep /\ RowOnly
    \/ LoopRun /\ MRStep /\ RowOnly
    \/ LoopRun /\ VCStep /\ RowOnly
    \/ ~LoopRun /\ BacktestStep

SpecExit == InitExit /\ [][NextExit]_vars

----------------------------------------------------------------------------
(* run_backtest on closes that divide the cash into whole lots               *)

\* closes of the signals frame: at 5 the initial capital buys two lots with
\* nothing left over, and at 2 the cash left over by a later buy of one lot
\* at 5 would pay for a lot more
LotPrices == {2, 4, 5}

\* the rows of SignalRows on the closes of a set
SignalRowsAt(class, pp, prices) ==
    {[r EXCEPT !.close = p] : r \in SignalRows(class, pp), p \in prices}

InitLots ==
    /\ self \in {x \in Selves : x.class \in {"MA", "VC"} /\ x.use_t1_rule}
    /\ i = 0 /\ date = 0 /\ bar = ZeroBar /\ st = ZeroState /\ row = ZeroRow
    /\ self_signals = [kind |-> "None"] /\ data = <<>>
    /\ bt_i = 0
    /\ sig \in {[r EXCEPT !.close = p] : r \in SignalRow0, p \in LotPrices}
    /\ cash = initial_capital * 10000
    /\ position = 0
    /\ eq = BT_init_cells(0, sig.close)
    /\ TradesIdle /\ CallsIdle /\ BatchIdle

BacktestLotsStep ==
    /\ bt_i < MaxBars
    /\ \E r \in SignalRowsAt(self.class, sig.position, LotPrices) :
          LET o == BT_body(cash, position, sig.position, r)
          IN sig' = r /\ cash' = o.cash /\ position' = o.position /\ eq' = o.cells
    /\ bt_i' = bt_i + 1
    /\ UNCHANGED <<svars, tvars, ovars>>

SpecLots == InitLots /\ [][BacktestLotsStep]_vars

----------------------------------------------------------------------------
(* generate_signals followed by run_backtest on the frame it returns.  The  *)
(* engine's loop takes a row as soon as the strategy's loop has written it: *)
(* neither loop reads a later row                                           *)

InitFollow ==
    /\ self \in {x \in Selves : x.trailing_stop /\ x.use_t1_rule}
    /\ i = 0 /\ date = 0
    /\ bar \in Bar0(self.class)
    /\ st = ZeroState /\ row = ZeroRow
    /\ self_signals = [kind |-> "None"] /\ data = <<>>
    /\ bt_i = 0
    /\ sig = [signal |-> 0, position |-> 0, close |-> bar.close]
    /\ cash = initial_capital * 10000
    /\ position = 0
    /\ eq = BT_init_cells(0, bar.close)
    /\ TradesIdle /\ CallsIdle /\ BatchIdle

\* the engine has taken every row written so far
Followed == bt_i = i

\* iteration bt_i + 1 of the engine's loop, on the row the strategy wrote last
FollowStep ==
    /\ bt_i < i
    /\ LET s == [signal |-> row.signal, position |-> row.position, close |-> bar.close]
           o == BT_body(cash, position, sig.position, s)
       IN sig' = s /\ cash' = o.cash /\ position' = o.position /\ eq' = o.cells
    /\ bt_i' = bt_i + 1
    /\ UNCHANGED <<svars, tvars, ovars>>

NextFollow ==
    \/ Followed /\ MAStep /\ RowOnly
    \/ Followed /\ DualStep /\ RowOnly
    \/ Followed /\ BandStep /\ RowOnly
    \/ Followed /\ BoxStep /\ RowOnly
    \/ Followed /\ ATRStep /\ RowOnly
    \/ Followed /\ MRStep /\ RowOnly
    \/ Followed /\ VCStep /\ RowOnly
    \/ FollowStep

SpecFollow == InitFollow /\ [][NextFollow]_vars

----------------------------------------------------------------------------
(* Properties *)

UnitClasses == {"MA", "Dual", "Band", "Box", "ATR", "MR"}
RawSignalClasses == {"MA", "Dual", "Band", "ATR", "MR", "VC"}
PctClasses == {"MA", "Dual", "Band"}

\* C1: in run_backtest the capital cell of every row, row 0 and the rows of a
\* buy that rounds to zero shares included, is the sum of the row's cash and
\* position_value cells.
C1_CapitalIsCashPlusPositionValue ==
    eq.capital = eq.cash + eq.position_value

\* a row with a buy signal that rounded to zero shares
C1_Witness ==
    bt_i >= 1 /\ sig.signal = SignalBuy /\ position = 0 /\ eq.capital > 0

\* C2: in the six one-unit strategies the signal column only holds 1, -1 and 0;
\* a 1 is written only on a row that follows a flat row and makes the row held,
\* a -1 only on a row that follows a held row and makes the row flat, and a row
\* with signal 0 keeps the position of the row before it.  With row 0 flat this
\* is the strict alternation +1, -1, +1, ... and position = 1 exactly from an
\* entry row up to the row before its exit.
C2_SignalsAlternate ==
    [][self.class \in UnitClasses =>
         /\ row'.signal \in {SignalBuy, SignalSell, 0}
         /\ row'.position \in {0, 1}
         /\ row'.signal = SignalBuy => row.position = 0 /\ row'.position = 1
         /\ row'.signal = SignalSell => row.position = 1 /\ row'.position = 0
         /\ row'.signal = 0 => row'.position = row.position]_vars

\* an exit row of a one-unit strategy, after an entry and a held row
C2_Witness ==
    self.class \in UnitClasses /\ row.signal = SignalSell /\ row.hold_days >= 3

\* C3: VolatilityControlStrategy writes signal 1 only on a row that follows a
\* flat row, and the held share count never increases from one held row to the
\* next.
C3_NoPyramiding ==
    [][self.class = "VC" =>
         /\ row'.signal = SignalBuy => st.position = 0
         /\ st.position > 0 /\ st'.position > 0 => st'.position <= st.position]_vars

\* C4: in the five strategies with a trailing stop, from one held row to the
\* next the stop price the loop carries does not decrease; the stop written on
\* a row of MovingAverageWithATRStrategy that follows a held row is not below
\* the stop carried before it, and with trailing_stop = False it is the
\* initial stop.
C4_StopNeverDecreases ==
    [][self.class \in {"MA", "Dual", "Band", "Box", "ATR"} /\ st.position = 1 =>
         /\ st'.position = 1 => st'.stop_loss_price >= st.stop_loss_price
         /\ self.class = "ATR" => row'.stop_loss >= st.stop_loss_price
         /\ self.class = "ATR" /\ ~self.trailing_stop
               => row'.stop_loss = st.initial_stop_price]_vars

\* a held row whose high gives a trailing stop below the stop carried
C4_Witness ==
    /\ self.class \in PctClasses /\ st.position = 1 /\ st.hold_days >= 2
    /\ bar.high * (100 - stop_loss_pct) < st.stop_loss_price

\* C5: in MeanReversionStrategy the stop_loss cell does not decrease from one
\* held row to the next.
C5_RecordedStopNeverDecreases ==
    [][self.class = "MR" /\ row.position = 1 /\ row'.position = 1
         => row'.stop_loss >= row.stop_loss]_vars

\* the first of the reasons whose condition holds, "" when none does
FirstTrue(conds, reasons) ==
    IF conds[1] THEN reasons[1]
    ELSE IF conds[2] THEN reasons[2]
    ELSE IF conds[3] THEN reasons[3]
    ELSE IF conds[4] THEN reasons[4]
    ELSE ""

\* C6: on a row of MovingAverageStrategy, DualMovingAverageStrategy or
\* MovingAverageBandStrategy that follows a held row, the sell reason written is
\* the first that holds of: raw signal -1, low <= stop, high >= take profit, the
\* secondary condition (close > 1.15 * MA20, resp. |deviation from MA| < 2%,
\* none for the dual strategy); the row is an exit exactly when one holds.
C6_ExitReasonPriority ==
    [][self.class \in PctClasses /\ st.position = 1 =>
         LET b == bar'
             secondary == IF self.class = "MA" THEN b.close * 100 > 115 * b.ma
                          ELSE IF self.class = "Band"
                               THEN Abs(b.close - b.ma) * 100 < 2 * b.ma
                               ELSE FALSE
             conds == <<row'.signal_raw = -1,
                        b.low * 100 <= st.stop_loss_price,
                        b.high * 100 >= st.take_profit_price,
                        secondary>>
             reasons == <<IF self.class = "Band" THEN "break_lower" ELSE "dead_cross",
                          "stop_loss", "take_profit",
                          IF self.class = "MA" THEN "deviation" ELSE "revert_to_ma">>
         IN /\ row'.sell_reason = FirstTrue(conds, reasons)
            /\ row'.signal = SignalSell <=> row'.sell_reason # ""
            /\ row'.signal # SignalSell => st'.position = 1]_vars

\* an exit row on which the take profit and the secondary condition both hold
C6_Witness ==
    /\ self.class = "MA" /\ row.sell_reason = "take_profit"
    /\ bar.close * 100 > 115 * bar.ma

\* C7: in MovingAverageWithATRStrategy, MeanReversionStrategy and
\* VolatilityControlStrategy an exit row with raw signal -1 has the signal
\* reversal as its reason, whatever other sell conditions hold on it.
C7_SignalReversalFirst ==
    [][(/\ self.class \in {"ATR", "MR", "VC"} /\ st.position > 0
        /\ row'.signal_raw = -1 /\ row'.signal = SignalSell)
         => row'.sell_reason \in {"dead_cross", "upper_break"}]_vars

\* C8: in BoxBreakoutStrategy a row that follows a held row, closes below
\* box_low without breaching the stop and reaches hold_period has the box-low
\* reason.
C8_BoxLowBeforeTimeExit ==
    [][(/\ self.class = "Box" /\ st.position = 1
        /\ bar'.close < bar'.box_low
        /\ st.hold_days + 1 >= hold_period
        /\ bar'.low * 100 > st.stop_loss_price)
         => row'.sell_reason = "box_low"]_vars

\* C9: in BoxBreakoutStrategy a row that follows a held row and whose low is at
\* or below the stop carried is an exit with the stop-loss reason.
C9_BoxStopOnLow ==
    [][self.class = "Box" /\ st.position = 1 /\ bar'.low * 100 <= st.stop_loss_price
         => row'.signal = SignalSell /\ row'.sell_reason = "stop_loss"]_vars

\* the entry part of C10: the loop goes from flat to held on a row exactly when
\* it is flat before the row and the row's raw signal is 1, and then records
\* entry_price = close and hold_days = 1
C10_EntryPart ==
    /\ (st.position = 0 /\ st'.position > 0) <=> (st.position = 0 /\ row'.signal_raw = 1)
    /\ st.position = 0 /\ st'.position > 0
         => /\ row'.entry_price = bar'.close /\ row'.hold_days = 1
            /\ st'.entry_price = bar'.close /\ st'.hold_days = 1

\* C10 as stated: the entry part, and a raw signal 1 on a row that follows a
\* held row changes neither entry_price nor hold_days.
C10_Original ==
    [][self.class \in RawSignalClasses =>
         /\ C10_EntryPart
         /\ st.position > 0 /\ row'.signal_raw = 1
              => st'.entry_price = st.entry_price /\ st'.hold_days = st.hold_days]_vars

\* C10 amended: the entry part, and a raw signal 1 on a row that follows a held
\* row and stays held leaves entry_price as it is and advances hold_days by one,
\* as on any held row.
C10_EntryOnlyWhenFlat ==
    [][self.class \in RawSignalClasses =>
         /\ C10_EntryPart
         /\ st.position > 0 /\ row'.signal_raw = 1 /\ st'.position > 0
              => st'.entry_price = st.entry_price /\ st'.hold_days = st.hold_days + 1]_vars

\* a held row with raw signal 1
C10_Witness ==
    /\ self.class \in RawSignalClasses /\ st.position > 0 /\ st.hold_days >= 2
    /\ row.signal_raw = 1 /\ row.signal = 0

\* C11: in run_backtest a buy signal met with no position and with cash that
\* buys less than one lot of 100 shares leaves the local position at 0 and the
\* local cash as it is, and a sell signal met with no position does the same.
C11_ZeroShareBuyIsNoTransition ==
    [][/\ (/\ position = 0 /\ sig'.signal = SignalBuy
           /\ (cash \div (100 * sig'.close * 10000)) * 100 = 0)
          => position' = 0 /\ cash' = cash
       /\ (position = 0 /\ sig'.signal = SignalSell)
          => position' = 0 /\ cash' = cash]_vars

\* a sell signal met with no position and the cash never touched: the buy
\* before it bought no share
C11_Witness ==
    /\ bt_i >= 2 /\ sig.signal = SignalSell /\ position = 0
    /\ cash = initial_capital * 10000 /\ eq.cash = cash

\* C12: in run_backtest a row that takes the local position from 0 to shares
\* buys floor(cash / (100 * close)) * 100 shares, takes shares * close *
\* (1 + commission_rate) from the cash and writes position_value = shares *
\* close; a row that takes it from shares to 0 adds shares * close *
\* (1 - commission_rate) to the cash and writes position_value = 0.
C12_TradeArithmetic ==
    [][/\ (position = 0 /\ position' > 0)
          => LET shares == (cash \div (100 * sig'.close * 10000)) * 100
             IN /\ sig'.signal = SignalBuy
                /\ position' = shares
                /\ cash' = cash - shares * sig'.close * (10000 + commission_rate)
                /\ eq'.position_value = shares * sig'.close * 10000
                /\ eq'.cash = cash'
       /\ (position > 0 /\ position' = 0)
          => /\ sig'.signal = SignalSell
             /\ cash' = cash + position * sig'.close * (10000 - commission_rate)
             /\ eq'.position_value = 0
             /\ eq'.cash = cash']_vars

\* the row of an executed exit
C12_Witness ==
    /\ sig.signal = SignalSell /\ position = 0 /\ eq.position_value = 0
    /\ cash # initial_capital * 10000 /\ eq.cash = cash

\* C13: in run_backtest the cash cell of a row on which the local position does
\* not change is the cash cell of the row before it.
C13_CashCellUnchangedWithoutTrade ==
    [][(bt_i' = bt_i + 1 /\ position' = position) => eq'.cash = eq.cash]_vars

\* C19: the signal cell of every row of every strategy is 1, -1 or 0.
C19_SignalInRange == row.signal \in {SignalBuy, SignalSell, 0}

\* C20: a row with signal -1 follows a held row and is later than the last row
\* with signal 1, and every entry of the trades list of analyze_trades has its
\* exit_date later than its entry_date.
C20_ExitAfterEntry ==
    /\ [](\A k \in 1..Len(trades) : trades[k].exit_date > trades[k].entry_date)
    /\ [][(i' = i + 1 /\ row'.signal = SignalSell)
            => /\ st.position > 0
               /\ buy_dates # <<>>
               /\ buy_dates[Len(buy_dates)] < date']_vars

\* a trades list with two trades
C20_Witness == Len(trades) >= 2

\* C17: calculate_performance_metrics returns None for every equity curve of
\* fewer than 50 rows and a summary for every curve of 50 rows or more.
C17_MetricsNeedFiftyPoints ==
    (call.fn = "calculate_performance_metrics" /\ ret.kind # "pending")
       => /\ call.n < 50 => ret.kind = "None"
          /\ call.n >= 50 => ret.kind = "performance" /\ ret.data_days = call.n

\* the curve of 49 rows
C17_Witness ==
    call.fn = "calculate_performance_metrics" /\ call.n = 49 /\ ret.kind = "None"

\* C18 as stated: load_single_stock accepts a readable file with the required
\* columns exactly when it has at least 100 rows.
C18_Original ==
    (/\ call.fn = "load_single_stock" /\ ret.kind # "pending"
     /\ call.file.readable /\ call.file.has_columns)
       => (ret.kind = "stock" <=> call.file.old_rows + call.file.new_rows >= 100)

\* C18 amended: load_single_stock returns a stock or (None, None); it accepts a
\* readable file with the required columns exactly when at least 100 of its
\* rows are dated 2015-01-01 or later, 99 such rows being rejected and 100
\* accepted.
C18_HundredBarsSince2015 ==
    (call.fn = "load_single_stock" /\ ret.kind # "pending")
       => /\ ret.kind \in {"stock", "None"}
          /\ ret.kind = "stock" <=>
                /\ call.file.readable /\ call.file.has_columns
                /\ call.file.new_rows >= 100

\* a file of 100 rows or more that is rejected: 99 of them are dated 2015 or later
C18_Witness ==
    /\ call.fn = "load_single_stock" /\ ret.kind = "None"
    /\ call.file.readable /\ call.file.has_columns
    /\ call.file.new_rows = 99 /\ call.file.old_rows >= 1

\* the codes of the loaded stocks whose evaluation raises nothing
CompletedStocks ==
    IF batch.strategy_exists
    THEN {stock_data_dict[k].stock_code :
            k \in {j \in 1..Len(stock_data_dict) : stock_data_dict[j].fault = "none"}}
    ELSE {}

\* C16: when run_batch_backtest has returned, every loaded stock was
\* processed however many stocks before it raised an exception, each is
\* in the results or in failed_stocks, the returned frame holds exactly
\* the stocks whose evaluation completed, once each, and None is
\* returned only when no stock completed.
C16_ExceptionCaughtAtStock ==
    pc = "done" =>
        /\ batch.strategy_exists /\ stock_data_dict # <<>> =>
              /\ stock_i = Len(stock_data_dict)
              /\ \A k \in 1..Len(stock_data_dict) :
                    \/ \E r \in 1..Len(all_results) :
                          all_results[r].stock_code = stock_data_dict[k].stock_code
                    \/ \E r \in 1..Len(failed_stocks) :
                          failed_stocks[r] = stock_data_dict[k].stock_code
        /\ results_df.kind \in {"DataFrame", "None"}
        /\ results_df.kind = "DataFrame" =>
              /\ {results_df.rows[r].stock_code : r \in 1..Len(results_df.rows)}
                    = CompletedStocks
              /\ Len(results_df.rows) = Cardinality(CompletedStocks)
        /\ results_df.kind = "None" => CompletedStocks = {}

\* a batch whose first stock raised and whose second stock is returned
C16_Witness ==
    /\ pc = "done" /\ results_df.kind = "DataFrame"
    /\ Len(stock_data_dict) = 2
    /\ stock_data_dict[1].fault # "none" /\ stock_data_dict[2].fault = "none"
    /\ failed_stocks = <<stock_data_dict[1].stock_code>>

Truncated(df, t) == SubSeq(df, 1, t + 1)

C21_OneTradeScenario ==
    /\ i \in {0, 1, 2, 6} => row.signal = 0 /\ row.position = 0 /\ st.position = 0
    /\ i = 3 => /\ row.signal = SignalBuy /\ row.position = 1
                /\ row.entry_price = 12 * PriceUnit
    /\ i = 4 => row.signal = 0 /\ row.position = 1
    /\ i = 5 => /\ row.signal = SignalSell /\ row.position = 0
                /\ row.sell_reason = "dead_cross"
                /\ row.trade_pnl = (9 - 12) * PriceUnit

\* the last row of the frame, reached after the one trade
C21_Witness ==
    /\ i = 6 /\ Len(data) = 7 /\ data[4].close = 12 * PriceUnit
    /\ data[4].ma * 2 = 21 * PriceUnit /\ row.signal = 0

\* the row of the latest entry at or before row t
EntryRow(s, df, t) ==
    SetMax({k \in 1..t : generate_signals(s, df, k).row.signal = SignalBuy})

\* the close of the entry row and the highs of the rows after it up to row t
PricesSinceEntry(df, e, t) == {df[e + 1].close} \cup {df[k + 1].high : k \in (e + 1)..t}

CallDrawdowns ==
    {drawdown(call.equity_curve, t) : t \in 1..Len(call.equity_curve)}

\* a drawdown of the curve that no other drawdown is below
IsLeastDrawdown(d) ==
    d \in CallDrawdowns /\ \A e \in CallDrawdowns : d.num * e.den <= e.num * d.den

\* C23 as stated: the reported max_drawdown is the least over the rows of
\* cumulative_returns / running maximum - 1.
C23_Original ==
    ret.kind = "performance" =>
        \E d \in CallDrawdowns : IsLeastDrawdown(d) /\ ret.max_drawdown * d.den = d.num * 10000

\* C23: the reported max_drawdown is the least over the rows of
\* cumulative_returns / running maximum - 1, rounded to four decimals; it
\* is never above 0, and it is -0.05 for a curve whose daily returns are 0
\* but for one day of -0.05.
C23_DrawdownRoundedToFourDecimals ==
    ret.kind = "performance" =>
        /\ \E d \in CallDrawdowns :
              /\ IsLeastDrawdown(d)
              /\ 2 * Abs(ret.max_drawdown * d.den - d.num * 10000) <= d.den
        /\ ret.max_drawdown <= 0
        /\ (\E p \in 1..(Len(call.equity_curve) - 1) :
               \A t \in 1..Len(call.equity_curve) :
                  call.equity_curve[t].cumulative_returns = IF t <= p THEN 10000 ELSE 9500)
              => ret.max_drawdown = -500

\* a curve that falls from a maximum above the initial capital: the least
\* drawdown 9500 / 10300 - 1 is reported as -0.0777
C23_Witness ==
    /\ ret.kind = "performance" /\ ret.max_drawdown = -777
    /\ \E t \in 1..Len(call.equity_curve) :
          drawdown(call.equity_curve, t) = [num |-> -800, den |-> 10300]

\* the rows s..(s + len - 1) of the curve all have a capital below that of
\* the row before
IsLossRun(df, s, len) == \A t \in s..(s + len - 1) : df[t].capital < df[t - 1].capital

\* C30: the reported max_consecutive_loss_days is the length of the longest
\* run of consecutive rows whose capital is below that of the row before: a
\* run of that length exists, none is longer (a row with an unchanged or
\* higher capital ends a run), and it is 0 when the capital never falls.
C30_LongestLossRun ==
    ret.kind = "performance" =>
        LET df == call.equity_curve
            n == Len(df)
            m == ret.max_consecutive_loss_days
        IN /\ m \in 0..(n - 1)
           /\ m > 0 => \E s \in 2..(n - m + 1) : IsLossRun(df, s, m)
           /\ \A len \in (m + 1)..(n - 1) :
                 \A s \in 2..(n - len + 1) : ~IsLossRun(df, s, len)

\* a fall, a rise and one more fall: two losing rows, the longest run is 1
C30_Witness ==
    /\ ret.kind = "performance" /\ ret.max_consecutive_loss_days = 1
    /\ \E t \in 4..Len(call.equity_curve) :
          LET df == call.equity_curve
          IN /\ df[t - 2].capital < df[t - 3].capital
             /\ df[t - 1].capital > df[t - 2].capital
             /\ df[t].capital < df[t - 1].capital

\* C24: the trade count min(rows with signal 1, rows with signal -1) of a
\* strategy's frame is its number of rows with signal -1, and a row has
\* signal -1 exactly when the loop goes from a held position to none on
\* it; so the count is the number of completed exits, and a position still
\* open on the last row adds nothing.
C24_TradeCountIsCompletedExits ==
    /\ [](total_trades(Len(buy_dates), Len(sell_dates)) = Len(sell_dates))
    /\ [][i' = i + 1 =>
            ((row'.signal = SignalSell) <=> (st.position > 0 /\ st'.position = 0))]_vars
    /\ [][i' = i + 1 =>
            (Len(sell_dates') = Len(sell_dates) + (IF row'.signal = SignalSell THEN 1 ELSE 0))]_vars

\* one completed trade and a second position still open
C24_Witness ==
    /\ Len(buy_dates) = 2 /\ Len(sell_dates) = 1 /\ st.position > 0
    /\ total_trades(Len(buy_dates), Len(sell_dates)) = 1


\* the columns the indicator stage has to provide, by class
RequiredColumns(c) ==
    CASE c = "Band" -> {"MA", "std", "upper_band", "lower_band"}
      [] c = "ATR" -> {"MA_short", "MA_long", "TR", "ATR"}
      [] c = "MR" -> {"BB_middle", "BB_std", "BB_upper", "BB_lower", "RSI"}

\* C25: on every bar, the first one included, each required trailing-window
\* indicator (moving averages, rolling standard deviation and its bands,
\* True Range and ATR, RSI) has a value
C25_PartialWindowsDefined ==
    ret.kind = "indicators" =>
        \A t \in 1..Len(ret.df) :
            \A f \in RequiredColumns(call.self.class) : ~ret.df[t][f].nan

\* C29: the RSI of a bar is exactly 50 when the rolling average loss of its
\* window is zero, whatever the average gain, and otherwise it is
\* 100 - 100 / (1 + avg_gain / avg_loss), a value in [0, 100)
C29_RSIGuardedAtZeroLoss ==
    (ret.kind = "indicators" /\ call.self.class = "MR") =>
        \A t \in 1..Len(ret.df) :
            LET r == ret.df[t]
                g == r.avg_gain.num * r.avg_loss.den
                l == r.avg_loss.num * r.avg_gain.den
            IN /\ ~r.RSI.nan /\ r.RSI.den > 0
               /\ (l = 0 => r.RSI.num = 50 * r.RSI.den)
               /\ (l > 0 =>
                     /\ r.RSI.num * (g + l) = 100 * g * r.RSI.den
                     /\ 0 <= r.RSI.num
                     /\ r.RSI.num < 100 * r.RSI.den)

\* a frame with a bar whose window holds gains and no loss, and a later bar
\* whose window holds both
C29_Witness ==
    /\ ret.kind = "indicators" /\ call.self.class = "MR"
    /\ call.self.rsi_period = 2
    /\ \E t \in 1..Len(ret.df) : \E u \in (t + 1)..Len(ret.df) :
          /\ ret.df[t].avg_loss.num = 0 /\ ret.df[t].avg_gain.num > 0
          /\ ret.df[t].RSI = Number(50, 1)
          /\ ret.df[u].avg_loss.num > 0 /\ ret.df[u].avg_gain.num > 0
          /\ ret.df[u].RSI.num > 0 /\ ret.df[u].RSI.num < 100 * ret.df[u].RSI.den


\* C26: in MovingAverageWithATRStrategy the stop-loss test of a held bar
\* compares the bar's low with the stop price in force at the end of the
\* previous bar; high_water_mark and the stop are raised from the bar's high
\* only when no exit fires on the bar
C26_ATRStopTestedBeforeRaise ==
    [][(self.class = "ATR" /\ st.position = 1 /\ i' = i + 1) =>
          /\ (row'.sell_reason = "atr_stop" => bar'.low * 100 <= st.stop_loss_price)
          /\ (row'.signal = SignalSell =>
                row'.stop_loss = IF self.trailing_stop THEN st.stop_loss_price
                                 ELSE st.initial_stop_price)]_vars


\* C27: in the box, ATR, mean-reversion and volatility-control strategies, on
\* daily bars, hold_days never exceeds the maximum (hold_period, 60, 10, 30):
\* hold_days is 1 on the entry bar and grows by one on every held bar, a
\* position that has reached maximum - 1 bars is closed on the next bar,
\* whatever the prices and the raw signals are
C27_TimeExitBoundsHolding ==
    /\ [](/\ row.hold_days <= max_hold_days(self.class)
          /\ (st.position > 0 => st.hold_days < max_hold_days(self.class)))
    /\ [][i' = i + 1 =>
            /\ ((st.position = 0 /\ st'.position > 0) => st'.hold_days = 1)
            /\ ((st.position > 0 /\ st'.position > 0) =>
                   st'.hold_days = st.hold_days + 1)
            /\ ((st.position > 0 /\ st.hold_days + 1 >= max_hold_days(self.class)) =>
                   (st'.position = 0 /\ row'.signal = SignalSell))]_vars

\* a position of the ATR strategy closed on its 60th bar by the time exit
C27_Witness ==
    /\ self.class = "ATR" /\ row.signal = SignalSell
    /\ row.hold_days = 60 /\ row.sell_reason = "max_hold"
    /\ i = 64


\* C28: the confirmation filters (volume ratio, moving-average slope, band
\* width, price above MA) only turn a raw Enter into None: no filter removes
\* or creates a raw Exit, and no bar carries both a raw Enter and a raw Exit
C28_FiltersOnlySuppressEnter ==
    ret.kind = "signal_raw" =>
        /\ ~(ret.basic.enter /\ ret.basic.exit)
        /\ (ret.signal_raw = -1 <=> ret.basic.exit)
        /\ (ret.signal_raw # basic_signal(ret.basic) =>
               (basic_signal(ret.basic) = 1 /\ ret.signal_raw = 0))

\* a break of the upper band on a band narrower than 5% of the mean: the
\* raw Enter is filtered out
C28_Witness ==
    /\ ret.kind = "signal_raw" /\ call.class = "Band"
    /\ ret.basic.enter /\ ret.signal_raw = 0
    /\ call.row.close > call.row.ma


\* the strategies whose loop writes a trade_pnl cell
PnlClasses == {"MA", "ATR", "MR", "VC"}

\* C31: every exit, whatever its reason, is priced at the close of the exit
\* bar: the trade_pnl cell of the exit row is close - entry_price (times the
\* shares in VolatilityControlStrategy), and run_backtest sells the whole
\* position at the close of the row, less the commission
C31_ExitsPricedAtClose ==
    /\ [][(i' = i + 1 /\ row'.signal = SignalSell /\ self.class \in PnlClasses) =>
            row'.trade_pnl = (bar'.close - st.entry_price)
                               * (IF self.class = "VC" THEN st.position ELSE 1)]_vars
    /\ [][(bt_i' = bt_i + 1 /\ position > 0 /\ position' = 0) =>
            /\ sig'.signal = SignalSell
            /\ cash' = cash + position * sig'.close * 10000
                         - position * sig'.close * commission_rate]_vars

\* a stop-loss exit of MovingAverageStrategy on a bar that closes above the
\* stop: entry at 13, stop 11.96, low 10, close 12, booked at -1
C31_Witness ==
    /\ self.class = "MA" /\ row.signal = SignalSell
    /\ row.sell_reason = "stop_loss"
    /\ bar.low = 10 /\ bar.close = 12 /\ row.trade_pnl = -1


\* C32: on every row of run_backtest the position_value cell is the shares
\* the engine holds after the row times the close of the row; with no share
\* held it is 0 and the capital cell is the cash, also on the rows after a
\* buy signal that rounded to zero shares
C32_PositionValueIsSharesTimesClose ==
    /\ eq.position_value = position * sig.close * 10000
    /\ (position = 0 /\ bt_i >= 1) => eq.capital = cash


\* C33: the cash of run_backtest is never negative: a buy of
\* floor(cash / (100 * price)) * 100 shares, commission included, never costs
\* more than the cash there is
C33_CashNeverNegative == cash >= 0 /\ eq.cash >= 0


\* C35: the shares run_backtest holds are always a non-negative multiple of
\* 100; they change only on an executed buy, from 0 to a positive number of
\* lots, or on an executed sell, to 0; no buy is executed while shares are
\* held
C35_SharesChangeByWholeTrades ==
    /\ [](position >= 0 /\ position % 100 = 0)
    /\ [][/\ position' # position =>
               \/ (position = 0 /\ position' > 0 /\ sig'.signal = SignalBuy)
               \/ (position > 0 /\ position' = 0 /\ sig'.signal = SignalSell)
          /\ (position > 0 /\ sig'.signal = SignalBuy) =>
               (position' = position /\ cash' = cash)]_vars

\* VolatilityControlStrategy adds to its position on a row at whose close
\* the left-over cash would pay for a lot; the engine keeps its 100 shares
C35_Witness ==
    /\ self.class = "VC" /\ bt_i = 4
    /\ sig.signal = SignalBuy /\ sig.position = low_vol_position /\ sig.close = 2
    /\ position = 100 /\ cash >= 200 * 10000


\* C34: run_backtest follows the strategy's position: at the end of every
\* row on which the engine holds shares the position cell of the strategy is
\* not 0, for the seven strategies; the position cell goes back to 0 only on
\* a row with signal -1, which the engine sells on
C34_EngineLongOnlyWhileStrategyLong ==
    /\ []((Followed /\ position > 0) => (row.position # 0 /\ st.position # 0))
    /\ [][(i' = i + 1 /\ row.position # 0 /\ row'.position = 0) =>
            row'.signal = SignalSell]_vars
    /\ [][(bt_i' = bt_i + 1 /\ row.signal = SignalSell) => position' = 0]_vars

\* a row on which the strategy has left its position and the engine has sold
\* the shares it bought on the strategy's entry
C34_Witness ==
    /\ Followed /\ i >= 2 /\ row.signal = SignalSell /\ row.position = 0
    /\ position = 0 /\ cash # initial_capital * 10000


\* the dates of the rows with signal 1 or -1 before date d
SignalsBefore(d) ==
    {buy_dates[k] : k \in {x \in 1..Len(buy_dates) : buy_dates[x] < d}}
    \cup {sell_dates[k] : k \in {x \in 1..Len(sell_dates) : sell_dates[x] < d}}

\* the row of date d takes the position from Flat to Long: it carries signal
\* 1 and the last row with a signal before it, if any, carries -1
OpensPosition(d) ==
    /\ \E k \in 1..Len(buy_dates) : buy_dates[k] = d
    /\ \/ SignalsBefore(d) = {}
       \/ \E k \in 1..Len(sell_dates) : sell_dates[k] = SetMax(SignalsBefore(d))

\* C36: every trade of VolatilityControlStrategy.analyze_trades is one real
\* position: its entry row is a Flat -> Long transition and its exit row is
\* the first Long -> Flat transition after it, also when the position is
\* adjusted while Long
C36_TradesAreRealPositions ==
    self.class = "VC" =>
        \A k \in 1..Len(trades) :
            /\ OpensPosition(trades[k].entry_date)
            /\ \E n \in 1..Len(sell_dates) :
                  /\ sell_dates[n] = trades[k].exit_date
                  /\ \A m \in 1..Len(sell_dates) :
                        sell_dates[m] > trades[k].entry_date
                            => sell_dates[m] >= sell_dates[n]


\* C37: on daily bars the T+1 rule never blocks a sale: every row that
\* MeanReversionStrategy and VolatilityControlStrategy write is the row the
\* loop body writes with use_t1_rule on and with use_t1_rule off, the loop's
\* locals included, and buy_eligible is 1 on every row
C37_T1RuleNeverBlocksOnDailyBars ==
    /\ [](self.class \in {"MR", "VC"} => row.buy_eligible = 1)
    /\ [][(self.class = "MR" /\ i' = i + 1)
              => /\ MR_body(TRUE, st, bar', date') = MR_body(FALSE, st, bar', date')
                 /\ [st |-> st', row |-> row'] = MR_body(FALSE, st, bar', date')]_vars
    /\ [][(self.class = "VC" /\ i' = i + 1)
              => /\ VC_body(TRUE, i', st, bar', bar, date')
                        = VC_body(FALSE, i', st, bar', bar, date')
                 /\ [st |-> st', row |-> row']
                        = VC_body(FALSE, i', st, bar', bar, date')]_vars

\* with the rule on, a position is sold on the row after its entry row
C37_Witness ==
    /\ self.class \in {"MR", "VC"} /\ self.use_t1_rule
    /\ row.signal = SignalSell /\ date - st.last_buy_date = 1


\* C38: in run_batch_backtest calculate_performance_metrics never returns
\* None for want of rows: every stock the loader accepts has at least 100
\* rows, the equity curve of a stock has as many rows as the stock, and a
\* stock whose evaluation raises no exception gets a performance record and
\* never enters failed_stocks
C38_LoadedStocksAlwaysGetMetrics ==
    /\ [](\A k \in 1..Len(stock_data_dict) :
             /\ stock_data_dict[k].rows >= min_bars
             /\ stock_data_dict[k].fault = "none"
                    => /\ evaluate_stock(stock_data_dict[k]).kind = "performance"
                       /\ evaluate_stock(stock_data_dict[k]).data_days
                              = stock_data_dict[k].rows)
    /\ [](\A k \in 1..Len(failed_stocks) :
             \E n \in 1..Len(stock_data_dict) :
                 /\ stock_data_dict[n].stock_code = failed_stocks[k]
                 /\ stock_data_dict[n].fault # "none")
    /\ [][(stock_i' = stock_i + 1 /\ stock_data_dict[stock_i'].fault = "none")
              => /\ failed_stocks' = failed_stocks
                 /\ Len(all_results') = Len(all_results) + 1
                 /\ all_results'[Len(all_results')].stock_code
                        = stock_data_dict[stock_i'].stock_code
                 /\ all_results'[Len(all_results')].data_days
                        = stock_data_dict[stock_i'].rows]_vars

\* a batch is done: a stock of exactly 100 rows has its record, and another
\* stock, whose evaluation raised, is the only failed one
C38_Witness ==
    /\ pc = "done" /\ Len(failed_stocks) = 1
    /\ \E k \in 1..Len(all_results) : all_results[k].data_days = min_bars


\* C39: the failed count of the summary that generate_summary_statistics
\* returns is the number of stocks of the batch without a performance
\* record, the length of failed_stocks
C39_SummaryCountsFailedStocks ==
    (pc = "done" /\ summary_stats.kind = "summary")
        => summary_stats.failed_stocks = Len(failed_stocks)
====
